---- MODULE Spec2Model ----
(***************************************************************************)
(* A model of zarrita's Array facade (src/zarrita/array.py): create, get   *)
(* and set over a key/value store, with the chunk key encodings, the       *)
(* total-slice / sharding-partial / read-modify-write dispatch of          *)
(* set_async, the fill elision of _write_chunk and the dtype/shape         *)
(* normalisation of _decode_chunk.  The collaborators that array.py        *)
(* imports (indexer, value handles, codecs, sharding) are modelled from    *)
(* their description in spec.md.                                           *)
(***************************************************************************)
EXTENDS Integers, Sequences, FiniteSets, TLC

VARIABLES
    array,   \* the Array handle: [metadata, path, runtime_configuration], or None
    store,   \* the key/value store: a function from the present keys to their bytes
    op,      \* the last call made on the handle and how it ended
    out      \* what the last call returned

vars == <<array, store, op, out>>

----------------------------------------------------------------------------
(* Bounds of the model *)

\* element values are 0..MaxV
MaxV == 1

\* largest extent of a grid axis in the pure-function specifications
MaxExt == 3

\* most payload bytes of a shard: a shard grows with every partial write
MaxPayload == 9

\* largest chunk coordinate given to the chunk key encodings
MaxCoord == 11

\* highest rank of a grid given to morton_order_iter
MaxRank == 4

Values == 0..MaxV

----------------------------------------------------------------------------
(* Tuples, shapes and n-dimensional arrays *)

None == [kind |-> "none"]

Reverse(s) == [i \in 1..Len(s) |-> s[Len(s) + 1 - i]]

Front(s) == SubSeq(s, 1, Len(s) - 1)

Last(s) == s[Len(s)]

RECURSIVE product(_)
product(tup) == IF tup = <<>> THEN 1 ELSE Head(tup) * product(Tail(tup))

\* all index tuples of an array of the given shape
RECURSIVE Idx(_)
Idx(shape) ==
    IF shape = <<>> THEN {<<>>}
    ELSE {<<i>> \o r : i \in 0..(Head(shape) - 1), r \in Idx(Tail(shape))}

\* position of an index tuple in row-major (C) order, last axis fastest
RECURSIVE RavelC(_, _)
RavelC(ix, shape) ==
    IF ix = <<>> THEN 0
    ELSE RavelC(Front(ix), Front(shape)) * Last(shape) + Last(ix)

\* position of an index tuple in column-major (F) order, first axis fastest
RavelF(ix, shape) == RavelC(Reverse(ix), Reverse(shape))

RECURSIVE UnravelC(_, _)
UnravelC(k, shape) ==
    IF shape = <<>> THEN <<>>
    ELSE UnravelC(k \div Last(shape), Front(shape)) \o <<k % Last(shape)>>

UnravelF(k, shape) == Reverse(UnravelC(k, Reverse(shape)))

\* an ndarray: its shape, its dtype and its elements in logical row-major order
NdArray(shape, dt, flat) == [kind |-> "ndarray", shape |-> shape, dt |-> dt, flat |-> flat]

At(a, ix) == a.flat[RavelC(ix, a.shape) + 1]

\* np.empty(shape); a.fill(v)
Full(shape, dt, v) == NdArray(shape, dt, [k \in 1..product(shape) |-> v])

\* a.ravel(order): the elements read in C or F index order
Ravel(a, order) ==
    IF order = "F"
    THEN [k \in 1..Len(a.flat) |-> At(a, UnravelF(k - 1, a.shape))]
    ELSE a.flat

\* a.reshape(shape, order=order)
Reshape(a, shape, order) ==
    LET src == Ravel(a, order) IN
    NdArray(shape, a.dt,
            [k \in 1..product(shape) |->
                IF order = "F"
                THEN src[RavelF(UnravelC(k - 1, shape), shape) + 1]
                ELSE src[k]])

\* a.T: the axes in reversed order
Transpose(a) ==
    LET tshape == Reverse(a.shape) IN
    NdArray(tshape, a.dt,
            [k \in 1..Len(a.flat) |-> At(a, Reverse(UnravelC(k - 1, tshape)))])

\* a selection is a tuple of unit-step slices <<start, stop>>
SelShape(sel) == [i \in 1..Len(sel) |-> sel[i][2] - sel[i][1]]

SelStart(sel) == [i \in 1..Len(sel) |-> sel[i][1]]

InSel(ix, sel) == \A i \in 1..Len(sel) : sel[i][1] <= ix[i] /\ ix[i] < sel[i][2]

Plus(a, b) == [i \in 1..Len(a) |-> a[i] + b[i]]

Minus(a, b) == [i \in 1..Len(a) |-> a[i] - b[i]]

\* a[sel]
GetSel(a, sel) ==
    LET shp == SelShape(sel) IN
    NdArray(shp, a.dt,
            [k \in 1..product(shp) |-> At(a, Plus(UnravelC(k - 1, shp), SelStart(sel)))])

\* a[sel] = v, with v an ndarray of the selection's shape
SetSel(a, sel, v) ==
    NdArray(a.shape, a.dt,
            [k \in 1..Len(a.flat) |->
                LET ix == UnravelC(k - 1, a.shape) IN
                IF InSel(ix, sel) THEN At(v, Minus(ix, SelStart(sel))) ELSE a.flat[k]])

\* a[sel] = v, with v a scalar
SetSelScalar(a, sel, v) ==
    NdArray(a.shape, a.dt,
            [k \in 1..Len(a.flat) |->
                IF InSel(UnravelC(k - 1, a.shape), sel) THEN v ELSE a.flat[k]])

\* np.all(a == v)
AllEqual(a, v) == \A k \in 1..Len(a.flat) : a.flat[k] = v

\* the slices 0:c of every axis
TotalSel(shape) == [i \in 1..Len(shape) |-> <<0, shape[i]>>]

----------------------------------------------------------------------------
(* Keys.  A string is a sequence of one-character strings, so that joining *)
(* and splitting are computed and not assumed.                             *)

DigitChars == <<"0", "1", "2", "3", "4", "5", "6", "7", "8", "9">>

\* str(k) of a non-negative int
RECURSIVE str(_)
str(k) == IF k < 10 THEN <<DigitChars[k + 1]>> ELSE str(k \div 10) \o <<DigitChars[(k % 10) + 1]>>

\* separator.join(parts)
RECURSIVE join(_, _)
join(separator, parts) ==
    IF parts = <<>> THEN <<>>
    ELSE IF Len(parts) = 1 THEN parts[1]
    ELSE parts[1] \o separator \o join(separator, Tail(parts))

ZARR_JSON == <<"z", "a", "r", "r", ".", "j", "s", "o", "n">>

\* the coordinates joined without the leading "c"
DefaultEncodeChunkKeyNoPrefix(separator, chunk_coords) ==
    join(separator, [i \in 1..Len(chunk_coords) |-> str(chunk_coords[i])])

\* DefaultChunkKeyEncodingMetadata.encode_chunk_key
DefaultEncodeChunkKey(separator, chunk_coords) ==
    join(separator, << <<"c">> >> \o [i \in 1..Len(chunk_coords) |-> str(chunk_coords[i])])

\* V2ChunkKeyEncodingMetadata.encode_chunk_key
V2EncodeChunkKey(separator, chunk_coords) ==
    LET chunk_identifier == join(separator, [i \in 1..Len(chunk_coords) |-> str(chunk_coords[i])])
    IN IF chunk_identifier = <<>> THEN <<"0">> ELSE chunk_identifier

encode_chunk_key(chunk_key_encoding, chunk_coords) ==
    IF chunk_key_encoding.name = "v2"
    THEN V2EncodeChunkKey(chunk_key_encoding.configuration.separator, chunk_coords)
    ELSE DefaultEncodeChunkKey(chunk_key_encoding.configuration.separator, chunk_coords)

\* chunk_key.split(separator): the pieces between the separators, "" included
RECURSIVE split(_, _)
split(chunk_key, separator) ==
    IF chunk_key = <<>> THEN << <<>> >>
    ELSE LET rest == split(Tail(chunk_key), separator)
         IN IF <<Head(chunk_key)>> = separator THEN << <<>> >> \o rest
            ELSE << <<Head(chunk_key)>> \o Head(rest) >> \o Tail(rest)

\* whether int(s) returns: s is a non-empty string of decimal digits
IsInt(s) == s # <<>> /\ \A i \in 1..Len(s) : \E d \in 1..10 : DigitChars[d] = s[i]

\* int(s) of a string of decimal digits
RECURSIVE int(_)
int(s) ==
    IF s = <<>> THEN 0
    ELSE 10 * int(SubSeq(s, 1, Len(s) - 1))
            + (CHOOSE d \in 0..9 : DigitChars[d + 1] = s[Len(s)])

\* tuple(map(int, parts)): the coordinates, or the ValueError of the first int() that fails
IntTuple(parts) ==
    IF \A i \in 1..Len(parts) : IsInt(parts[i])
    THEN [kind |-> "coords", value |-> [i \in 1..Len(parts) |-> int(parts[i])]]
    ELSE [kind |-> "error", error |-> "ValueError"]

\* DefaultChunkKeyEncodingMetadata.decode_chunk_key
DefaultDecodeChunkKey(separator, chunk_key) ==
    IF chunk_key = <<"c">> THEN [kind |-> "coords", value |-> <<>>]
    ELSE IntTuple(split(Tail(chunk_key), separator))

\* V2ChunkKeyEncodingMetadata.decode_chunk_key
V2DecodeChunkKey(separator, chunk_key) == IntTuple(split(chunk_key, separator))

decode_chunk_key(chunk_key_encoding, chunk_key) ==
    IF chunk_key_encoding.name = "v2"
    THEN V2DecodeChunkKey(chunk_key_encoding.configuration.separator, chunk_key)
    ELSE DefaultDecodeChunkKey(chunk_key_encoding.configuration.separator, chunk_key)

\* a chunk key that is made of the coordinates of the first chunk for every chunk
ChunkKeyOfOrigin(arr, chunk_coords) ==
    arr.path \o <<"/">>
        \o encode_chunk_key(arr.metadata.chunk_key_encoding,
                            [i \in 1..Len(chunk_coords) |-> 0])

\* f"{self.path}/{chunk_key_encoding.encode_chunk_key(chunk_coords)}"
ChunkKey(arr, chunk_coords) ==
    arr.path \o <<"/">> \o encode_chunk_key(arr.metadata.chunk_key_encoding, chunk_coords)

\* f"{self.path}/{ZARR_JSON}"
MetadataKey(path) == path \o <<"/">> \o ZARR_JSON

----------------------------------------------------------------------------
(* The store: get, set and delete by key *)

EmptyStore == [k \in {} |-> None]

StoreGet(st, key) == IF key \in DOMAIN st THEN st[key] ELSE None

StoreSet(st, key, bytes) == [k \in (DOMAIN st) \cup {key} |-> IF k = key THEN bytes ELSE st[k]]

StoreDelete(st, key) == [k \in (DOMAIN st) \ {key} |-> st[k]]

----------------------------------------------------------------------------
(* The indexer *)

CeilDiv(a, b) == (a + b - 1) \div b

Max(a, b) == IF a >= b THEN a ELSE b

Min(a, b) == IF a <= b THEN a ELSE b

\* the chunk coordinates lo..hi-1 of one axis, each followed by every tail, in order
RECURSIVE AxisProduct(_, _, _)
AxisProduct(lo, hi, tails) ==
    IF lo >= hi THEN <<>>
    ELSE [j \in 1..Len(tails) |-> <<lo>> \o tails[j]] \o AxisProduct(lo + 1, hi, tails)

\* the Cartesian product of the per-axis ranges <<lo, hi>>, last axis fastest
RECURSIVE CoordsProduct(_)
CoordsProduct(ranges) ==
    IF ranges = <<>> THEN << <<>> >>
    ELSE AxisProduct(Head(ranges)[1], Head(ranges)[2], CoordsProduct(Tail(ranges)))

\* the chunks of one axis that lie before the chunk holding stop
DimChunkRangeFloor(slice, dim_chunk_len) ==
    <<slice[1] \div dim_chunk_len, slice[2] \div dim_chunk_len>>

\* the chunks of one axis that the slice start:stop intersects
DimChunkRange(slice, dim_chunk_len) ==
    <<slice[1] \div dim_chunk_len, CeilDiv(slice[2], dim_chunk_len)>>

\* the projection of the selection on the chunk at chunk_coords
ChunkProjection(selection, chunk_shape, chunk_coords) ==
    LET lo(i) == Max(selection[i][1], chunk_coords[i] * chunk_shape[i])
        hi(i) == Min(selection[i][2], chunk_coords[i] * chunk_shape[i] + chunk_shape[i])
    IN [chunk_coords    |-> chunk_coords,
        chunk_selection |-> [i \in 1..Len(selection) |->
                                <<lo(i) - chunk_coords[i] * chunk_shape[i],
                                  hi(i) - chunk_coords[i] * chunk_shape[i]>>],
        out_selection   |-> [i \in 1..Len(selection) |->
                                <<lo(i) - selection[i][1], hi(i) - selection[i][1]>>]]

\* BasicIndexer(selection, shape, chunk_shape): the projections it yields, in order
BasicIndexer(selection, shape, chunk_shape) ==
    LET coords == CoordsProduct([i \in 1..Len(selection) |->
                                    DimChunkRange(selection[i], chunk_shape[i])])
    IN [j \in 1..Len(coords) |-> ChunkProjection(selection, chunk_shape, coords[j])]

\* indexer.shape
IndexerShape(selection) == SelShape(selection)

is_total_slice(sel, chunk_shape) ==
    \A i \in 1..Len(chunk_shape) : sel[i] = <<0, chunk_shape[i]>>

----------------------------------------------------------------------------
(* Morton order of a grid *)

\* ceil(log2(c)) for c >= 1
RECURSIVE CeilLog2(_)
CeilLog2(c) == IF c <= 1 THEN 0 ELSE 1 + CeilLog2((c + 1) \div 2)

RECURSIVE Pow2(_)
Pow2(n) == IF n = 0 THEN 1 ELSE 2 * Pow2(n - 1)

Bit(z, i) == (z \div Pow2(i)) % 2

RECURSIVE MaxOf(_)
MaxOf(s) == IF s = <<>> THEN 0 ELSE Max(Head(s), MaxOf(Tail(s)))

\* the interleaving: at each bit position, each axis that still has a bit at that
\* position takes the next bit of z, axis 0 first
RECURSIVE MortonBits(_, _, _, _, _, _)
MortonBits(z, bits, coord_bit, dim, input_bit, acc) ==
    IF coord_bit >= MaxOf(bits) THEN acc
    ELSE IF dim > Len(bits)
         THEN MortonBits(z, bits, coord_bit + 1, 1, input_bit, acc)
    ELSE IF coord_bit < bits[dim]
         THEN MortonBits(z, bits, coord_bit, dim + 1, input_bit + 1,
                         [i \in 1..Len(acc) |->
                             IF i = dim THEN acc[i] + Bit(z, input_bit) * Pow2(coord_bit)
                             ELSE acc[i]])
    ELSE MortonBits(z, bits, coord_bit, dim + 1, input_bit, acc)

\* the interleaving with the last axis taking the lowest bit
decode_morton_last_axis_first(z, chunk_shape) ==
    Reverse(MortonBits(z, [i \in 1..Len(chunk_shape) |->
                              CeilLog2(Reverse(chunk_shape)[i])], 0, 1, 0,
                       [i \in 1..Len(chunk_shape) |-> 0]))

\* the grid coordinate whose Morton code is z
decode_morton(z, chunk_shape) ==
    MortonBits(z, [i \in 1..Len(chunk_shape) |-> CeilLog2(chunk_shape[i])], 0, 1, 0,
               [i \in 1..Len(chunk_shape) |-> 0])

\* list(morton_order_iter(chunk_shape))
morton_order_iter(chunk_shape) ==
    [i \in 1..product(chunk_shape) |-> decode_morton(i - 1, chunk_shape)]

----------------------------------------------------------------------------
(* Bytes and value handles *)

\* bytes of one uint16 element
ItemSize == 2

RECURSIVE LEBytes(_, _)
LEBytes(v, n) == IF n = 0 THEN <<>> ELSE <<v % 256>> \o LEBytes(v \div 256, n - 1)

RECURSIVE LEValue(_)
LEValue(bytes) == IF bytes = <<>> THEN 0 ELSE Head(bytes) + 256 * LEValue(Tail(bytes))

RECURSIVE Concat(_)
Concat(seqs) == IF seqs = <<>> THEN <<>> ELSE Head(seqs) \o Concat(Tail(seqs))

\* ndarray.tobytes(): the elements in row-major order, each in host (little-endian) order
ArrayToBytes(a) ==
    IF a.dt = "uint8" THEN a.flat
    ELSE Concat([k \in 1..Len(a.flat) |-> LEBytes(a.flat[k], ItemSize)])

\* np.frombuffer(bytes): a one-dimensional array of bytes
FromBuffer(bytes) == NdArray(<<Len(bytes)>>, "uint8", bytes)

\* a.view(dtype) of a one-dimensional array of bytes
View(a, dtype) ==
    NdArray(<<Len(a.flat) \div ItemSize>>, dtype,
            [k \in 1..(Len(a.flat) \div ItemSize) |->
                LEValue(SubSeq(a.flat, (k - 1) * ItemSize + 1, k * ItemSize))])

NoneValueHandle == None

BufferValueHandle(buf) == [kind |-> "buffer", buf |-> buf]

ArrayValueHandle(a) == [kind |-> "array", array |-> a]

FileValueHandle(key) == [kind |-> "file", key |-> key]

\* value_handle.tobytes(): a buffer handle, or None when there are no bytes
tobytes(st, value_handle) ==
    CASE value_handle.kind = "none"   -> None
      [] value_handle.kind = "buffer" -> value_handle
      [] value_handle.kind = "array"  -> BufferValueHandle(ArrayToBytes(value_handle.array))
      [] value_handle.kind = "file"   ->
            IF value_handle.key \in DOMAIN st
            THEN BufferValueHandle(st[value_handle.key]) ELSE None

\* value_handle.toarray(): an ndarray, or None
toarray(st, value_handle) ==
    CASE value_handle.kind = "array" -> value_handle.array
      [] OTHER ->
            LET b == tobytes(st, value_handle)
            IN IF b.kind = "none" THEN None ELSE FromBuffer(b.buf)

\* FileValueHandle.set_async(value): the None handle deletes the key
FileSet(st, key, value) ==
    LET b == tobytes(st, value)
    IN IF b.kind = "none" THEN StoreDelete(st, key) ELSE StoreSet(st, key, b.buf)

\* an array of the given dtype and shape out of what a handle carries (C order)
AsArray(a, dtype, shape) ==
    LET typed == IF a.dt # dtype THEN View(a, dtype) ELSE a
    IN IF typed.shape # shape THEN Reshape(typed, shape, "C") ELSE typed

----------------------------------------------------------------------------
(* Codecs.  Each is a record with its name and configuration. *)

TransposeCodec(order) == [name |-> "transpose", configuration |-> [order |-> order]]

EndianCodec(endian) == [name |-> "endian", configuration |-> [endian |-> endian]]

GzipCodec == [name |-> "gzip", configuration |-> [level |-> 5]]

BloscCodec == [name |-> "blosc", configuration |-> [cname |-> "zstd"]]

ShardingCodec(chunk_shape, codecs) ==
    [name |-> "sharding_indexed",
     configuration |-> [chunk_shape |-> chunk_shape, codecs |-> codecs]]

\* the bytes of every element swapped end for end
ByteSwap(bytes) ==
    [k \in 1..Len(bytes) |->
        bytes[((k - 1) \div ItemSize) * ItemSize + (ItemSize - ((k - 1) % ItemSize))]]

GzipMagic == <<31, 139>>

TransposeEncode(st, codec, value_handle, core) ==
    LET a == toarray(st, value_handle)
    IN IF a.kind = "none" THEN NoneValueHandle
       ELSE IF codec.configuration.order = "F"
            THEN ArrayValueHandle(Transpose(AsArray(a, core.data_type, core.chunk_shape)))
       ELSE value_handle

TransposeDecode(st, codec, value_handle, core) ==
    LET a == toarray(st, value_handle)
    IN IF a.kind = "none" THEN NoneValueHandle
       ELSE IF codec.configuration.order = "F"
            THEN ArrayValueHandle(
                     Transpose(AsArray(a, core.data_type, Reverse(core.chunk_shape))))
       ELSE value_handle

EndianEncode(st, codec, value_handle, core) ==
    LET b == tobytes(st, value_handle)
    IN IF b.kind = "none" THEN NoneValueHandle
       ELSE IF codec.configuration.endian = "big"
            THEN BufferValueHandle(ByteSwap(b.buf))
       ELSE b

EndianDecode(st, codec, value_handle, core) == EndianEncode(st, codec, value_handle, core)

GzipEncode(st, codec, value_handle, core) ==
    LET b == tobytes(st, value_handle)
    IN IF b.kind = "none" THEN NoneValueHandle
       ELSE BufferValueHandle(GzipMagic \o b.buf)

GzipDecode(st, codec, value_handle, core) ==
    LET b == tobytes(st, value_handle)
    IN IF b.kind = "none" THEN NoneValueHandle
       ELSE BufferValueHandle(SubSeq(b.buf, Len(GzipMagic) + 1, Len(b.buf)))

\* the header keeps the uncompressed length
BloscEncode(st, codec, value_handle, core) ==
    LET b == tobytes(st, value_handle)
    IN IF b.kind = "none" THEN NoneValueHandle
       ELSE BufferValueHandle(<<Len(b.buf)>> \o b.buf)

BloscDecode(st, codec, value_handle, core) ==
    LET b == tobytes(st, value_handle)
    IN IF b.kind = "none" THEN NoneValueHandle
       ELSE BufferValueHandle(SubSeq(b.buf, 2, 1 + b.buf[1]))

RECURSIVE CodecEncode(_, _, _, _)
RECURSIVE CodecDecode(_, _, _, _)

\* the codecs applied last to first
RECURSIVE EncodeAllReversed(_, _, _, _)
EncodeAllReversed(st, codecs, value_handle, core) ==
    IF codecs = <<>> THEN value_handle
    ELSE CodecEncode(st, Head(codecs),
                     EncodeAllReversed(st, Tail(codecs), value_handle, core), core)

\* the codecs applied in the order given, each to the previous one's output
RECURSIVE EncodeAll(_, _, _, _)
EncodeAll(st, codecs, value_handle, core) ==
    IF codecs = <<>> THEN value_handle
    ELSE EncodeAll(st, Tail(codecs), CodecEncode(st, Head(codecs), value_handle, core), core)

RECURSIVE DecodeAll(_, _, _, _)
DecodeAll(st, codecs, value_handle, core) ==
    IF codecs = <<>> THEN value_handle
    ELSE DecodeAll(st, Tail(codecs), CodecDecode(st, Head(codecs), value_handle, core), core)

\* the dtype and the shape of a decoded chunk made right
EnsureDtypeAndShape(chunk_array, data_type, chunk_shape, order) ==
    LET typed == IF chunk_array.dt # data_type THEN View(chunk_array, data_type)
                 ELSE chunk_array
    IN IF typed.shape # chunk_shape THEN Reshape(typed, chunk_shape, order) ELSE typed

----------------------------------------------------------------------------
(* The sharding codec.  A shard is the payloads of its sub-chunks followed *)
(* by an index of one (offset, length) entry per sub-chunk, row-major,     *)
(* each number 8 bytes little-endian.                                      *)

\* bytes of one number of an index entry
U64Bytes == 8

\* an empty sub-chunk: offset and length 2^64 - 1
SentinelEntry == [i \in 1..(2 * U64Bytes) |-> 255]

MkEntry(offset, length) == LEBytes(offset, U64Bytes) \o LEBytes(length, U64Bytes)

EntryOffset(entry) == LEValue(SubSeq(entry, 1, U64Bytes))

EntryLength(entry) == LEValue(SubSeq(entry, U64Bytes + 1, 2 * U64Bytes))

ChunksPerShard(shard_shape, chunk_shape) ==
    [i \in 1..Len(shard_shape) |-> shard_shape[i] \div chunk_shape[i]]

\* a shard being built: the payload so far and the index entries, row-major
EmptyShard(n) == [payload |-> <<>>, index |-> [s \in 1..n |-> SentinelEntry]]

\* the shard read from its bytes: the index is the last 16 n bytes
ParseShard(bytes, n) ==
    LET index_start == Len(bytes) - 2 * U64Bytes * n
    IN [payload |-> SubSeq(bytes, 1, index_start),
        index   |-> [s \in 1..n |->
                        SubSeq(bytes, index_start + 2 * U64Bytes * (s - 1) + 1,
                               index_start + 2 * U64Bytes * s)]]

ShardBytes(shard) == shard.payload \o Concat(shard.index)

\* the index with the entry of one slot replaced
SetEntry(index, slot, entry) == [s \in 1..Len(index) |-> IF s = slot THEN entry ELSE index[s]]

\* a shard writer that points every new entry at the start of the payload
ShardAppendAtStart(shard, slot, bytes) ==
    [payload |-> shard.payload \o bytes,
     index   |-> SetEntry(shard.index, slot, MkEntry(0, Len(bytes)))]

\* the bytes of the sub-chunk appended after the end of the payload
ShardAppend(shard, slot, bytes) ==
    [payload |-> shard.payload \o bytes,
     index   |-> SetEntry(shard.index, slot, MkEntry(Len(shard.payload), Len(bytes)))]

ShardTombstone(shard, slot) ==
    [payload |-> shard.payload, index |-> SetEntry(shard.index, slot, SentinelEntry)]

ShardIsAllEmpty(shard) == \A s \in 1..Len(shard.index) : shard.index[s] = SentinelEntry

\* a shard with no live sub-chunk is all fill: it is represented by absence
ShardFinalize(shard) ==
    IF ShardIsAllEmpty(shard) THEN NoneValueHandle
    ELSE BufferValueHandle(ShardBytes(shard))

\* the core metadata the inner codecs see
SubCore(codec, core) == [core EXCEPT !.chunk_shape = codec.configuration.chunk_shape]

\* the block of the shard that the sub-chunk at chunk_coords holds
SubChunkSel(chunk_coords, chunk_shape) ==
    [i \in 1..Len(chunk_coords) |->
        <<chunk_coords[i] * chunk_shape[i], chunk_coords[i] * chunk_shape[i] + chunk_shape[i]>>]

\* one sub-chunk through the inner codecs, to bytes
ShardEncodeChunk(st, codec, chunk_array, core) ==
    tobytes(st, EncodeAll(st, codec.configuration.codecs, ArrayValueHandle(chunk_array),
                          SubCore(codec, core))).buf

\* one sub-chunk back from its bytes
ShardDecodeChunk(st, codec, bytes, core) ==
    EnsureDtypeAndShape(
        toarray(st, DecodeAll(st, Reverse(codec.configuration.codecs),
                              BufferValueHandle(bytes), SubCore(codec, core))),
        core.data_type, codec.configuration.chunk_shape, core.order)

\* the sub-chunk of a slot as an array: fill when its entry is the sentinel
ShardGetChunk(st, codec, shard, slot, core) ==
    IF shard.index[slot] = SentinelEntry
    THEN Full(codec.configuration.chunk_shape, core.data_type, core.fill_value)
    ELSE ShardDecodeChunk(st, codec,
                          SubSeq(shard.payload, EntryOffset(shard.index[slot]) + 1,
                                 EntryOffset(shard.index[slot]) + EntryLength(shard.index[slot])),
                          core)

\* a sub-chunk written into the shard being built: all fill makes its entry the sentinel
ShardPutChunk(st, codec, shard, slot, chunk_array, core) ==
    IF AllEqual(chunk_array, core.fill_value) THEN ShardTombstone(shard, slot)
    ELSE ShardAppend(shard, slot, ShardEncodeChunk(st, codec, chunk_array, core))

RECURSIVE ShardEncodeChunks(_, _, _, _, _, _)
ShardEncodeChunks(st, codec, shard_array, core, coords, shard) ==
    IF coords = <<>> THEN shard
    ELSE LET cps  == ChunksPerShard(core.chunk_shape, codec.configuration.chunk_shape)
             slot == RavelC(Head(coords), cps) + 1
             sub  == GetSel(shard_array, SubChunkSel(Head(coords), codec.configuration.chunk_shape))
         IN ShardEncodeChunks(st, codec, shard_array, core, Tail(coords),
                              ShardPutChunk(st, codec, shard, slot, sub, core))

\* full encode: every sub-chunk, in Morton order
ShardingEncode(st, codec, value_handle, core) ==
    LET a   == toarray(st, value_handle)
        cps == ChunksPerShard(core.chunk_shape, codec.configuration.chunk_shape)
    IN IF a.kind = "none" THEN NoneValueHandle
       ELSE ShardFinalize(
                ShardEncodeChunks(st, codec, AsArray(a, core.data_type, core.chunk_shape),
                                  core, morton_order_iter(cps), EmptyShard(product(cps))))

RECURSIVE ShardScatter(_, _, _, _, _, _)
ShardScatter(st, codec, shard, core, projs, acc) ==
    IF projs = <<>> THEN acc
    ELSE LET p    == Head(projs)
             cps  == ChunksPerShard(core.chunk_shape, codec.configuration.chunk_shape)
             slot == RavelC(p.chunk_coords, cps) + 1
             sub  == ShardGetChunk(st, codec, shard, slot, core)
         IN ShardScatter(st, codec, shard, core, Tail(projs),
                         SetSel(acc, p.out_selection, GetSel(sub, p.chunk_selection)))

\* full decode: the whole shard as an array
ShardingDecode(st, codec, value_handle, core) ==
    LET b   == tobytes(st, value_handle)
        cps == ChunksPerShard(core.chunk_shape, codec.configuration.chunk_shape)
    IN IF b.kind = "none" THEN NoneValueHandle
       ELSE ArrayValueHandle(
                ShardScatter(st, codec, ParseShard(b.buf, product(cps)), core,
                             BasicIndexer(TotalSel(core.chunk_shape), core.chunk_shape,
                                          codec.configuration.chunk_shape),
                             Full(core.chunk_shape, core.data_type, core.fill_value)))

\* partial decode: the selection of the shard as an array, None when the shard is absent
decode_partial(st, codec, value_handle, selection, core) ==
    LET b   == tobytes(st, value_handle)
        cps == ChunksPerShard(core.chunk_shape, codec.configuration.chunk_shape)
    IN IF b.kind = "none" THEN NoneValueHandle
       ELSE ArrayValueHandle(
                ShardScatter(st, codec, ParseShard(b.buf, product(cps)), core,
                             BasicIndexer(selection, core.chunk_shape,
                                          codec.configuration.chunk_shape),
                             Full(SelShape(selection), core.data_type, core.fill_value)))

\* whether the selection intersects the sub-chunk at chunk_coords
Touches(selection, chunk_shape, chunk_coords) ==
    \A i \in 1..Len(selection) :
        /\ DimChunkRange(selection[i], chunk_shape[i])[1] <= chunk_coords[i]
        /\ chunk_coords[i] < DimChunkRange(selection[i], chunk_shape[i])[2]

RECURSIVE ShardMerge(_, _, _, _, _, _, _)
ShardMerge(st, codec, shard, core, shard_array, selection, coords) ==
    IF coords = <<>> THEN shard
    ELSE IF ~Touches(selection, codec.configuration.chunk_shape, Head(coords))
         THEN ShardMerge(st, codec, shard, core, shard_array, selection, Tail(coords))
    ELSE LET p    == ChunkProjection(selection, codec.configuration.chunk_shape, Head(coords))
             cps  == ChunksPerShard(core.chunk_shape, codec.configuration.chunk_shape)
             slot == RavelC(p.chunk_coords, cps) + 1
             new  == GetSel(shard_array, p.out_selection)
             sub  == IF is_total_slice(p.chunk_selection, codec.configuration.chunk_shape)
                     THEN new
                     ELSE SetSel(ShardGetChunk(st, codec, shard, slot, core),
                                 p.chunk_selection, new)
         IN ShardMerge(st, codec, ShardPutChunk(st, codec, shard, slot, sub, core), core,
                       shard_array, selection, Tail(coords))

\* partial encode: the touched sub-chunks rewritten after the end of the old payload,
\* in Morton order; the entries of the others kept
encode_partial(st, codec, value_handle, shard_array, selection, core) ==
    LET b   == tobytes(st, value_handle)
        cps == ChunksPerShard(core.chunk_shape, codec.configuration.chunk_shape)
        old == IF b.kind = "none" THEN EmptyShard(product(cps))
               ELSE ParseShard(b.buf, product(cps))
    IN ShardFinalize(ShardMerge(st, codec, old, core, shard_array, selection,
                                morton_order_iter(cps)))

----------------------------------------------------------------------------
(* The codec dispatch *)

CodecEncode(st, codec, value_handle, core) ==
    CASE codec.name = "transpose"        -> TransposeEncode(st, codec, value_handle, core)
      [] codec.name = "endian"           -> EndianEncode(st, codec, value_handle, core)
      [] codec.name = "gzip"             -> GzipEncode(st, codec, value_handle, core)
      [] codec.name = "blosc"            -> BloscEncode(st, codec, value_handle, core)
      [] codec.name = "sharding_indexed" -> ShardingEncode(st, codec, value_handle, core)

CodecDecode(st, codec, value_handle, core) ==
    CASE codec.name = "transpose"        -> TransposeDecode(st, codec, value_handle, core)
      [] codec.name = "endian"           -> EndianDecode(st, codec, value_handle, core)
      [] codec.name = "gzip"             -> GzipDecode(st, codec, value_handle, core)
      [] codec.name = "blosc"            -> BloscDecode(st, codec, value_handle, core)
      [] codec.name = "sharding_indexed" -> ShardingDecode(st, codec, value_handle, core)

----------------------------------------------------------------------------
(* The Array facade *)

\* ArrayRuntimeConfiguration(): order defaults to "C"
ArrayRuntimeConfiguration == [order |-> "C"]

\* Array._core_metadata
core_metadata(arr) ==
    [shape       |-> arr.metadata.shape,
     chunk_shape |-> arr.metadata.chunk_grid.configuration.chunk_shape,
     data_type   |-> arr.metadata.data_type,
     fill_value  |-> arr.metadata.fill_value,
     order       |-> arr.runtime_configuration.order]

\* len(codecs) == 1 and codecs[0].name == "sharding_indexed"
IsShardingOnly(arr) ==
    /\ Len(arr.metadata.codecs) = 1
    /\ arr.metadata.codecs[1].name = "sharding_indexed"

\* Array.create_async: the handle it returns
create_async(path, shape, chunk_shape, fill_value, chunk_key_encoding, codecs, runtime_configuration) ==
    [kind     |-> "array",
     metadata |-> [shape              |-> shape,
                   data_type          |-> "uint16",
                   chunk_grid         |-> [name |-> "regular",
                                           configuration |-> [chunk_shape |-> chunk_shape]],
                   chunk_key_encoding |->
                       IF chunk_key_encoding[1] = "v2"
                       THEN [name |-> "v2",
                             configuration |-> [separator |-> chunk_key_encoding[2]]]
                       ELSE [name |-> "default",
                             configuration |-> [separator |-> chunk_key_encoding[2]]],
                   fill_value         |-> IF fill_value.kind = "none" THEN 0
                                          ELSE fill_value.value,
                   codecs             |-> codecs,
                   zarr_format        |-> 3,
                   node_type          |-> "array"],
     path     |-> path,
     runtime_configuration |->
         IF runtime_configuration.kind = "none" THEN ArrayRuntimeConfiguration
         ELSE [order |-> runtime_configuration.order]]

\* Array._save_metadata: the document stored at {path}/zarr.json
save_metadata(st, arr) ==
    StoreSet(st, MetadataKey(arr.path), [kind |-> "json", document |-> arr.metadata])

\* Array._encode_chunk
encode_chunk(st, arr, chunk_array) ==
    EncodeAll(st, arr.metadata.codecs, ArrayValueHandle(chunk_array), core_metadata(arr))

\* Array._decode_chunk: the chunk as an array of chunk_shape, or None
decode_chunk(st, arr, value_handle) ==
    IF value_handle.kind = "none" THEN None
    ELSE LET chunk_array ==
                 toarray(st, DecodeAll(st, Reverse(arr.metadata.codecs), value_handle,
                                       core_metadata(arr)))
         IN IF chunk_array.kind = "none" THEN None
            ELSE EnsureDtypeAndShape(chunk_array, arr.metadata.data_type,
                                     arr.metadata.chunk_grid.configuration.chunk_shape,
                                     arr.runtime_configuration.order)

\* _write_chunk without the removal of chunks that only contain fill_value
write_chunk_always(st, arr, chunk_key, chunk_array) ==
    FileSet(st, chunk_key, encode_chunk(st, arr, chunk_array))

\* Array._write_chunk: a chunk that only contains fill_value is removed
write_chunk(st, arr, chunk_key, chunk_array) ==
    LET chunk_value == IF AllEqual(chunk_array, arr.metadata.fill_value)
                       THEN NoneValueHandle
                       ELSE encode_chunk(st, arr, chunk_array)
    IN FileSet(st, chunk_key, chunk_value)

\* _fetch_chunk that leaves the output as it is when the chunk is missing
fetch_chunk_present_only(st, arr, p, o) ==
    LET whole == decode_chunk(st, arr, FileValueHandle(ChunkKey(arr, p.chunk_coords)))
    IN IF whole.kind = "none" THEN o
       ELSE SetSel(o, p.out_selection, GetSel(whole, p.chunk_selection))

\* _fetch_chunk that assigns fill_value to the whole output when its chunk is missing
fetch_chunk_fill_whole(st, arr, p, o) ==
    LET whole == decode_chunk(st, arr, FileValueHandle(ChunkKey(arr, p.chunk_coords)))
    IN IF whole.kind = "none"
       THEN SetSelScalar(o, TotalSel(o.shape), arr.metadata.fill_value)
       ELSE SetSel(o, p.out_selection, GetSel(whole, p.chunk_selection))

\* Array._fetch_chunk: the output array with the chunk's part assigned
fetch_chunk(st, arr, p, o) ==
    LET value_handle == FileValueHandle(ChunkKey(arr, p.chunk_coords))
        chunk_array ==
            IF IsShardingOnly(arr)
            THEN toarray(st, decode_partial(st, arr.metadata.codecs[1], value_handle,
                                            p.chunk_selection, core_metadata(arr)))
            ELSE LET whole == decode_chunk(st, arr, value_handle)
                 IN IF whole.kind = "none" THEN None ELSE GetSel(whole, p.chunk_selection)
    IN IF chunk_array.kind # "none"
       THEN SetSel(o, p.out_selection, chunk_array)
       ELSE SetSelScalar(o, p.out_selection, arr.metadata.fill_value)

RECURSIVE FetchChunks(_, _, _, _)
FetchChunks(st, arr, projs, o) ==
    IF projs = <<>> THEN o
    ELSE FetchChunks(st, arr, Tail(projs), fetch_chunk(st, arr, Head(projs), o))

\* Array.get_async: np.zeros in the runtime order, every chunk fetched into it
get_async(st, arr, selection) ==
    LET indexer == BasicIndexer(selection, arr.metadata.shape,
                                arr.metadata.chunk_grid.configuration.chunk_shape)
        zeros   == Full(IndexerShape(selection), arr.metadata.data_type, 0)
        o       == FetchChunks(st, arr, indexer, zeros)
    IN IF o.shape # <<>>
       THEN [kind |-> "ndarray", shape |-> o.shape, dt |-> o.dt, flat |-> o.flat,
             order |-> arr.runtime_configuration.order]
       ELSE [kind |-> "scalar", value |-> o.flat[1]]

\* the flags of the array np.zeros(shape, order=order) and of what is assigned into it
NonUnitAxes(shape) == Cardinality({i \in 1..Len(shape) : shape[i] > 1})

C_CONTIGUOUS(a) == a.order = "C" \/ NonUnitAxes(a.shape) <= 1

F_CONTIGUOUS(a) == a.order = "F" \/ NonUnitAxes(a.shape) <= 1

\* a value given to set: a scalar or an ndarray
Scalar(v) == [kind |-> "scalar", value |-> v]

isscalar(value) == value.kind = "scalar"

\* a round of the loop that takes a shard through read-modify-write like any chunk
set_chunk_whole(st, arr, sel_shape, value, p) ==
    LET chunk_shape == arr.metadata.chunk_grid.configuration.chunk_shape
        chunk_key   == ChunkKey(arr, p.chunk_coords)
        tmp         == decode_chunk(st, arr, FileValueHandle(chunk_key))
        chunk_array == IF tmp.kind = "none"
                       THEN Full(chunk_shape, arr.metadata.data_type, arr.metadata.fill_value)
                       ELSE tmp
    IN IF isscalar(value)
       THEN [store |-> write_chunk(st, arr, chunk_key,
                                   SetSelScalar(chunk_array, p.chunk_selection, value.value)),
             error |-> "none"]
       ELSE [store |-> write_chunk(st, arr, chunk_key,
                                   SetSel(chunk_array, p.chunk_selection,
                                          GetSel(value, p.out_selection))),
             error |-> "none"]

\* one round of the loop of Array.set_async: the store after it, or the error raised
set_chunk(st, arr, sel_shape, value, p) ==
    LET chunk_shape == arr.metadata.chunk_grid.configuration.chunk_shape
        chunk_key   == ChunkKey(arr, p.chunk_coords)
        value_handle == FileValueHandle(chunk_key)
    IN IF is_total_slice(p.chunk_selection, chunk_shape)
       THEN LET chunk_array ==
                    IF sel_shape = <<>>
                    THEN NdArray(<<>>, arr.metadata.data_type, <<value.value>>)
                    ELSE IF isscalar(value)
                         THEN Full(chunk_shape, arr.metadata.data_type, value.value)
                    ELSE GetSel(value, p.out_selection)
            IN [store |-> write_chunk(st, arr, chunk_key, chunk_array), error |-> "none"]
       ELSE IF IsShardingOnly(arr)
            THEN IF isscalar(value)
                 THEN [store |-> st, error |-> "TypeError"]
                 ELSE [store |-> FileSet(st, chunk_key,
                                         encode_partial(st, arr.metadata.codecs[1], value_handle,
                                                        GetSel(value, p.out_selection),
                                                        p.chunk_selection, core_metadata(arr))),
                       error |-> "none"]
       ELSE LET tmp == decode_chunk(st, arr, value_handle)
                chunk_array == IF tmp.kind = "none"
                               THEN Full(chunk_shape, arr.metadata.data_type,
                                         arr.metadata.fill_value)
                               ELSE tmp
            IN IF isscalar(value)
               THEN [store |-> st, error |-> "TypeError"]
               ELSE [store |-> write_chunk(st, arr, chunk_key,
                                           SetSel(chunk_array, p.chunk_selection,
                                                  GetSel(value, p.out_selection))),
                     error |-> "none"]

RECURSIVE SetChunks(_, _, _, _, _)
SetChunks(st, arr, sel_shape, value, projs) ==
    IF projs = <<>> THEN [store |-> st, error |-> "none"]
    ELSE LET r == set_chunk(st, arr, sel_shape, value, Head(projs))
         IN IF r.error # "none" THEN r
            ELSE SetChunks(r.store, arr, sel_shape, value, Tail(projs))

\* set_async that checks the shape of the value after the loop over the chunks, which
\* it runs on the first element of a value of the wrong shape
set_async_check_last(st, arr, selection, value) ==
    LET chunk_shape == arr.metadata.chunk_grid.configuration.chunk_shape
        indexer     == BasicIndexer(selection, arr.metadata.shape, chunk_shape)
        sel_shape   == IndexerShape(selection)
        shape_ok    == IF sel_shape = <<>> THEN isscalar(value)
                       ELSE IF isscalar(value) THEN TRUE
                       ELSE value.shape = sel_shape
        r           == SetChunks(st, arr, sel_shape,
                                 IF shape_ok THEN value ELSE Scalar(value.flat[1]), indexer)
    IN IF shape_ok THEN r ELSE [store |-> r.store, error |-> "AssertionError"]

\* Array.set_async: the store after it and the error it raised, if any
set_async(st, arr, selection, value) ==
    LET chunk_shape == arr.metadata.chunk_grid.configuration.chunk_shape
        indexer     == BasicIndexer(selection, arr.metadata.shape, chunk_shape)
        sel_shape   == IndexerShape(selection)
        shape_ok    == IF sel_shape = <<>> THEN isscalar(value)
                       ELSE IF isscalar(value) THEN TRUE
                       ELSE value.shape = sel_shape
    IN IF ~shape_ok THEN [store |-> st, error |-> "AssertionError"]
       ELSE SetChunks(st, arr, sel_shape, value, indexer)

----------------------------------------------------------------------------
(* The calls a client makes *)

\* the non-empty slices start:stop of an axis of the given length
Slices(n) == {s \in (0..(n - 1)) \X (1..n) : s[1] < s[2]}

\* the selections of an array of the given shape: one non-empty slice per axis
RECURSIVE Selections(_)
Selections(shape) ==
    IF shape = <<>> THEN {<<>>}
    ELSE {<<s>> \o r : s \in Slices(Head(shape)), r \in Selections(Tail(shape))}

ArraysOf(shape) ==
    {NdArray(shape, "uint16", f) : f \in [1..product(shape) -> Values]}

\* what a client may assign to a selection: a scalar, or an array of its shape
ValuesFor(selection) ==
    {Scalar(v) : v \in Values}
        \cup (IF selection = <<>> THEN {} ELSE ArraysOf(SelShape(selection)))

\* a[selection] = value on an in-memory array
Assign(a, selection, value) ==
    IF isscalar(value) THEN SetSelScalar(a, selection, value.value)
    ELSE SetSel(a, selection, value)

\* the keys of the store that are not a metadata document
IsMetadataKey(key) ==
    /\ Len(key) >= Len(ZARR_JSON)
    /\ SubSeq(key, Len(key) - Len(ZARR_JSON) + 1, Len(key)) = ZARR_JSON

ChunkKeysOf(st) == {k \in DOMAIN st : ~IsMetadataKey(k)}

\* the shards of a sharded array stay within MaxPayload bytes of payload
PayloadBounded(st, arr) ==
    IsShardingOnly(arr) =>
        \A k \in ChunkKeysOf(st) :
            Len(st[k]) - 2 * U64Bytes
                * product(ChunksPerShard(arr.metadata.chunk_grid.configuration.chunk_shape,
                                         arr.metadata.codecs[1].configuration.chunk_shape))
                <= MaxPayload

Init ==
    /\ array = None
    /\ store = EmptyStore
    /\ op = [kind |-> "none"]
    /\ out = None

\* Array.create(store, path, shape=, chunk_shape=, ...)
Create(configs) ==
    /\ array.kind = "none"
    /\ \E c \in configs :
          LET arr == create_async(<<"a">>, c.shape, c.chunk_shape, c.fill_value,
                              c.chunk_key_encoding, c.codecs, c.runtime_configuration)
          IN /\ array' = arr
             /\ store' = save_metadata(store, arr)
    /\ op' = [kind |-> "create"]
    /\ out' = None

\* a[selection] = value
\* what a set leaves behind: r is what set_async returned
SetResult(selection, value, r) ==
    /\ PayloadBounded(r.store, array)
    /\ store' = r.store
    /\ op' = [kind |-> "set", selection |-> selection, value |-> value, error |-> r.error]

Set ==
    /\ array.kind = "array"
    /\ \E selection \in Selections(array.metadata.shape) :
          \E value \in ValuesFor(selection) :
             SetResult(selection, value, set_async(store, array, selection, value))
    /\ out' = None
    /\ UNCHANGED array

\* a[selection]
Get ==
    /\ array.kind = "array"
    /\ \E selection \in Selections(array.metadata.shape) :
          /\ out' = get_async(store, array, selection)
          /\ op' = [kind |-> "get", selection |-> selection]
    /\ UNCHANGED <<array, store>>

----------------------------------------------------------------------------
(* The arrays of the specification Spec: one chunk pipeline without sharding *)

Config(shape, chunk_shape, fill_value, chunk_key_encoding, codecs, runtime_configuration) ==
    [shape |-> shape, chunk_shape |-> chunk_shape, fill_value |-> fill_value,
     chunk_key_encoding |-> chunk_key_encoding, codecs |-> codecs,
     runtime_configuration |-> runtime_configuration]

Order(o) == [kind |-> "runtime", order |-> o]

\* one-chunk and two-chunk grids, with and without an edge chunk, every codec of
\* the pipeline, zero and non-zero fill values, both runtime orders, rank 0,
\* and one shard of two sub-chunks
Configs ==
    { Config(<<3>>, <<2>>, None, <<"default", <<"/">> >>, <<>>, None),
      Config(<<3>>, <<2>>, Scalar(1), <<"v2", <<".">> >>,
             <<EndianCodec("little"), GzipCodec>>, None),
      Config(<<2, 1>>, <<2, 2>>, None, <<"default", <<".">> >>,
             <<TransposeCodec("F"), EndianCodec("big"), BloscCodec>>, None),
      Config(<<2, 1>>, <<2, 2>>, Scalar(1), <<"v2", <<"/">> >>, <<>>, Order("F")),
      Config(<<1, 2>>, <<1, 1>>, Scalar(0), <<"default", <<"/">> >>,
             <<TransposeCodec("F")>>, Order("F")),
      Config(<<2, 1>>, <<1, 2>>, None, <<"default", <<"/">> >>,
             <<TransposeCodec("C")>>, Order("C")),
      Config(<<>>, <<>>, Scalar(1), <<"default", <<"/">> >>, <<EndianCodec("big")>>, None),
      Config(<<>>, <<>>, None, <<"v2", <<".">> >>, <<>>, None),
      Config(<<2>>, <<2>>, Scalar(1), <<"default", <<"/">> >>,
             <<ShardingCodec(<<1>>, <<TransposeCodec("F"), BloscCodec>>)>>, None) }

CreateArray == Create(Configs)

Next == CreateArray \/ Set \/ Get

Spec == Init /\ [][Next]_vars

----------------------------------------------------------------------------
(* What the properties below observe *)

\* the coordinates of the chunks of the grid of an array
AllChunkCoords(arr) ==
    Idx([i \in 1..Len(arr.metadata.shape) |->
            CeilDiv(arr.metadata.shape[i], arr.metadata.chunk_grid.configuration.chunk_shape[i])])

\* np.array_equal(a, r) for an array a and what a read returned
array_equal(a, r) == r.kind = "ndarray" /\ a.shape = r.shape /\ a.flat = r.flat

\* the elements of what a read returned, row-major
Elements(r) == IF r.kind = "scalar" THEN <<r.value>> ELSE r.flat

\* the whole array as a read of the full selection sees it
ReadAll(st, arr) ==
    NdArray(arr.metadata.shape, arr.metadata.data_type,
            Elements(get_async(st, arr, TotalSel(arr.metadata.shape))))

\* whether a selection and a block of the array have an element in common
Intersects(selection, block) ==
    \A i \in 1..Len(selection) :
        selection[i][1] < block[i][2] /\ block[i][1] < selection[i][2]

\* the block of the array that the chunk at chunk_coords covers
ChunkBlock(chunk_coords, chunk_shape) ==
    [i \in 1..Len(chunk_coords) |->
        <<chunk_coords[i] * chunk_shape[i], (chunk_coords[i] + 1) * chunk_shape[i]>>]

----------------------------------------------------------------------------
(* Properties *)

\* C1: after set(full selection, A), a get(full selection) returns an array equal
\* to A element for element, for every codec pipeline and every chunk shape.
C1_RoundTrip ==
    [][(/\ op.kind = "set"
        /\ op.selection = TotalSel(array.metadata.shape)
        /\ ~isscalar(op.value)
        /\ op'.kind = "get"
        /\ op'.selection = op.selection)
          => array_equal(op.value, out')]_vars

\* C2: the store-backed array is observationally equal to an in-memory array: a
\* fresh array reads as fill_value everywhere, and after every set a get of any
\* selection returns what the same assignment leaves in the in-memory array.
C2_LastWriteWins ==
    [][/\ op'.kind = "create"
            => AllEqual(ReadAll(store', array'), array'.metadata.fill_value)
       /\ (op'.kind = "set" /\ vars' # vars)
            => \A sel \in Selections(array.metadata.shape) :
                  Elements(get_async(store', array, sel))
                      = GetSel(Assign(ReadAll(store, array), op'.selection, op'.value),
                               sel).flat]_vars

\* C3: no chunk key is present in the store whose decoded contents equal
\* fill_value everywhere.
C3_FillElision ==
    array.kind = "array" =>
        \A c \in AllChunkCoords(array) :
            ChunkKey(array, c) \in DOMAIN store =>
                ~AllEqual(decode_chunk(store, array, FileValueHandle(ChunkKey(array, c))),
                          array.metadata.fill_value)

\* a partial write of fill_value has been made to a chunk, after which its key is
\* absent, while another chunk is present
C3_Witness ==
    /\ op.kind = "set"
    /\ op.error = "none"
    /\ ~isscalar(op.value)
    /\ AllEqual(op.value, array.metadata.fill_value)
    /\ array.metadata.fill_value # 0
    /\ ChunkKeysOf(store) # {}
    /\ \E c \in AllChunkCoords(array) :
          LET chunk_shape == array.metadata.chunk_grid.configuration.chunk_shape
          IN /\ Intersects(op.selection, ChunkBlock(c, chunk_shape))
             /\ op.selection # ChunkBlock(c, chunk_shape)
             /\ ChunkKey(array, c) \notin DOMAIN store

\* C4: while every chunk key is absent, a get of any selection returns a buffer of
\* the selection's shape in which every element equals fill_value.
C4_MissingIsFill ==
    (array.kind = "array" /\ ChunkKeysOf(store) = {}) =>
        /\ \A sel \in Selections(array.metadata.shape) :
              LET r == get_async(store, array, sel)
              IN /\ sel # <<>> => r.kind = "ndarray" /\ r.shape = SelShape(sel)
                 /\ Len(Elements(r)) = product(SelShape(sel))
                 /\ \A k \in 1..Len(Elements(r)) :
                       Elements(r)[k] = array.metadata.fill_value
        /\ op.kind = "get" =>
              \A k \in 1..Len(Elements(out)) : Elements(out)[k] = array.metadata.fill_value

\* a read of a fresh sharded array with a non-zero fill_value has returned
C4_Witness ==
    /\ op.kind = "get"
    /\ IsShardingOnly(array)
    /\ array.metadata.fill_value # 0
    /\ ChunkKeysOf(store) = {}
    /\ out.kind = "ndarray"
    /\ out.shape = array.metadata.shape
    /\ AllEqual(out, array.metadata.fill_value)

\* C6: set(selection, v) with a scalar v and a selection of non-empty shape
\* succeeds and assigns v to every element of the selection.
C6_ScalarBroadcast ==
    (op.kind = "set" /\ isscalar(op.value) /\ op.selection # <<>>) =>
        /\ op.error = "none"
        /\ \A k \in 1..product(SelShape(op.selection)) :
              Elements(get_async(store, array, op.selection))[k] = op.value.value

----------------------------------------------------------------------------
(* The arrays of the specification SpecOrder: one chunk of two rows and two *)
(* columns, as in test_order_F, test_order_C and test_order_implicitC       *)

OrderConfigs ==
    { Config(<<2, 2>>, <<2, 2>>, Scalar(0), <<"default", <<"/">> >>, codecs, rc) :
        codecs \in { <<>>, <<TransposeCodec("F")>>, <<TransposeCodec("C")>> },
        rc \in { None, Order("F") } }

CreateOrdered == Create(OrderConfigs)

NextOrder == CreateOrdered \/ Set \/ Get

SpecOrder == Init /\ [][NextOrder]_vars

----------------------------------------------------------------------------
(* The arrays of the specification SpecSharding: sharding is the only codec *)

InnerCodecs == <<TransposeCodec("F"), BloscCodec>>

ShardConfigs ==
    { Config(<<2>>, <<2>>, None, <<"default", <<"/">> >>,
             <<ShardingCodec(<<1>>, InnerCodecs)>>, None),
      Config(<<2, 1>>, <<2, 2>>, Scalar(1), <<"default", <<"/">> >>,
             <<ShardingCodec(<<1, 2>>, <<TransposeCodec("F")>>)>>, None),
      Config(<<1, 2>>, <<2, 2>>, None, <<"v2", <<".">> >>,
             <<ShardingCodec(<<1, 1>>, <<EndianCodec("big"), GzipCodec>>)>>, Order("F")) }

CreateSharded == Create(ShardConfigs)

NextSharding == CreateSharded \/ Set \/ Get

SpecSharding == Init /\ [][NextSharding]_vars
----------------------------------------------------------------------------
(* Properties of the order of the returned buffer *)

\* C7: with only a transpose codec of order "F" and no runtime_configuration, a
\* full read returns the written data in an F-contiguous buffer that is not
\* C-contiguous; with transpose order "C" or no codecs, the buffer is C-contiguous
\* and not F-contiguous.
C7_OrderContract ==
    [][(/\ op.kind = "set"
        /\ op.selection = TotalSel(array.metadata.shape)
        /\ ~isscalar(op.value)
        /\ array.runtime_configuration = ArrayRuntimeConfiguration
        /\ op'.kind = "get"
        /\ op'.selection = op.selection)
          => /\ array.metadata.codecs = <<TransposeCodec("F")>>
                  => /\ array_equal(op.value, out')
                     /\ F_CONTIGUOUS(out')
                     /\ ~C_CONTIGUOUS(out')
             /\ array.metadata.codecs \in {<<>>, <<TransposeCodec("C")>>}
                  => /\ array_equal(op.value, out')
                     /\ C_CONTIGUOUS(out')
                     /\ ~F_CONTIGUOUS(out')]_vars

----------------------------------------------------------------------------
(* Properties of partial writes to a shard *)

\* the sub-chunk grid of a shard
SubChunkCoords(arr) ==
    Idx(ChunksPerShard(arr.metadata.chunk_grid.configuration.chunk_shape,
                       arr.metadata.codecs[1].configuration.chunk_shape))

\* the index slot of a sub-chunk: row-major over the sub-chunk grid
SlotOf(arr, sub_coords) ==
    RavelC(sub_coords, ChunksPerShard(arr.metadata.chunk_grid.configuration.chunk_shape,
                                      arr.metadata.codecs[1].configuration.chunk_shape)) + 1

\* the shard stored for chunk_coords; an absent shard has only empty sub-chunks
ShardOf(st, arr, chunk_coords) ==
    IF ChunkKey(arr, chunk_coords) \in DOMAIN st
    THEN ParseShard(st[ChunkKey(arr, chunk_coords)], Cardinality(SubChunkCoords(arr)))
    ELSE EmptyShard(Cardinality(SubChunkCoords(arr)))

\* the (offset, length) entry of a sub-chunk
SubChunkEntry(st, arr, chunk_coords, sub_coords) ==
    ShardOf(st, arr, chunk_coords).index[SlotOf(arr, sub_coords)]

\* the decoded contents of a sub-chunk
SubChunkContents(st, arr, chunk_coords, sub_coords) ==
    ShardGetChunk(st, arr.metadata.codecs[1], ShardOf(st, arr, chunk_coords),
                  SlotOf(arr, sub_coords), core_metadata(arr))

\* the block of the array that a sub-chunk of a shard covers
SubChunkBlock(arr, chunk_coords, sub_coords) ==
    [i \in 1..Len(chunk_coords) |->
        LET start == chunk_coords[i] * arr.metadata.chunk_grid.configuration.chunk_shape[i]
                     + sub_coords[i] * arr.metadata.codecs[1].configuration.chunk_shape[i]
        IN <<start, start + arr.metadata.codecs[1].configuration.chunk_shape[i]>>]

\* C5: on an array whose only codec is sharding, a set leaves the index entry and
\* the decoded contents of every sub-chunk that its selection does not touch
\* unchanged.
C5_PartialWriteLocality ==
    [][(/\ array.kind = "array"
        /\ IsShardingOnly(array)
        /\ op'.kind = "set"
        /\ vars' # vars)
          => \A c \in AllChunkCoords(array) : \A sc \in SubChunkCoords(array) :
                ~Intersects(op'.selection, SubChunkBlock(array, c, sc))
                    => /\ SubChunkEntry(store', array, c, sc)
                            = SubChunkEntry(store, array, c, sc)
                       /\ SubChunkContents(store', array, c, sc)
                            = SubChunkContents(store, array, c, sc)]_vars

\* a partial write has appended a sub-chunk behind one that it did not touch and
\* that is still where it was
C5_Witness ==
    /\ op.kind = "set"
    /\ op.error = "none"
    /\ IsShardingOnly(array)
    /\ \E c \in AllChunkCoords(array) : \E sc, tc \in SubChunkCoords(array) :
          /\ ~Intersects(op.selection, SubChunkBlock(array, c, sc))
          /\ Intersects(op.selection, SubChunkBlock(array, c, tc))
          /\ SubChunkEntry(store, array, c, sc) # SentinelEntry
          /\ SubChunkEntry(store, array, c, tc) # SentinelEntry
          /\ EntryOffset(SubChunkEntry(store, array, c, sc))
                < EntryOffset(SubChunkEntry(store, array, c, tc))
          /\ SlotOf(array, tc) < SlotOf(array, sc)
----------------------------------------------------------------------------
(* The specification SpecFunctions: the indexer, the Morton order and the   *)
(* chunk key encodings, each applied to inputs drawn from bounded sets      *)

Shapes(rank, max) == [1..rank -> 1..max]

\* the calls BasicIndexer(selection, shape, chunk_shape) with a selection in bounds
IndexerCalls ==
    UNION {{[kind |-> "BasicIndexer", selection |-> sel, shape |-> shape, chunk_shape |-> cs] :
               cs \in Shapes(Len(shape), MaxExt), sel \in Selections(shape)} :
           shape \in Shapes(0, MaxExt) \cup Shapes(1, MaxExt) \cup Shapes(2, MaxExt)}

\* shape (10,), chunk_shape (4,), selection 2:9
IndexerExample ==
    [kind |-> "BasicIndexer", selection |-> << <<2, 9>> >>, shape |-> <<10>>,
     chunk_shape |-> <<4>>]

MortonCalls ==
    {[kind |-> "morton_order_iter", chunk_shape |-> shape] :
        shape \in UNION {Shapes(r, 2) : r \in 1..MaxRank}}

KeyCalls ==
    {[kind |-> "encode_chunk_key", chunk_key_encoding |-> <<name, <<sep>> >>,
      chunk_coords |-> c] :
        name \in {"default", "v2"}, sep \in {"/", "."},
        c \in [1..0 -> {0}] \cup [1..1 -> 0..MaxCoord] \cup [1..2 -> 0..MaxCoord]}

\* the array that a chunk key is asked of: one chunk per coordinate up to the one asked
KeyArray(call) ==
    create_async(<<"a">>, [i \in 1..Len(call.chunk_coords) |-> call.chunk_coords[i] + 1],
             [i \in 1..Len(call.chunk_coords) |-> 1], None, call.chunk_key_encoding,
             <<>>, None)

InitFunctions ==
    /\ array = None
    /\ store = EmptyStore
    /\ out = None
    /\ op \in IndexerCalls \cup {IndexerExample}
                \cup MortonCalls \cup KeyCalls

\* list(BasicIndexer(selection, shape=shape, chunk_shape=chunk_shape)) and its shape
Index ==
    /\ op.kind = "BasicIndexer"
    /\ out.kind = "none"
    /\ out' = [kind  |-> "projections",
               value |-> BasicIndexer(op.selection, op.shape, op.chunk_shape),
               shape |-> IndexerShape(op.selection)]
    /\ UNCHANGED <<array, store, op>>

\* list(morton_order_iter(chunk_shape))
Morton ==
    /\ op.kind = "morton_order_iter"
    /\ out.kind = "none"
    /\ out' = [kind |-> "coords", value |-> morton_order_iter(op.chunk_shape)]
    /\ UNCHANGED <<array, store, op>>

\* the key of the chunk at chunk_coords, as _fetch_chunk and set_async build it
EncodeKey ==
    /\ op.kind = "encode_chunk_key"
    /\ out.kind = "none"
    /\ array' = KeyArray(op)
    /\ out' = [kind    |-> "key",
               encoded |-> encode_chunk_key(KeyArray(op).metadata.chunk_key_encoding,
                                            op.chunk_coords),
               value   |-> ChunkKey(KeyArray(op), op.chunk_coords)]
    /\ UNCHANGED <<store, op>>

\* chunk_key_encoding.decode_chunk_key of the key that encode_chunk_key returned
DecodeKey ==
    /\ op.kind = "encode_chunk_key"
    /\ out.kind = "key"
    /\ out' = [kind    |-> "decoded",
               encoded |-> out.encoded,
               value   |-> decode_chunk_key(array.metadata.chunk_key_encoding, out.encoded)]
    /\ UNCHANGED <<array, store, op>>

NextFunctions == Index \/ Morton \/ EncodeKey \/ DecodeKey

SpecFunctions == InitFunctions /\ [][NextFunctions]_vars
----------------------------------------------------------------------------
(* Properties of the indexer, the Morton order and the chunk keys *)

\* ceil(a / b)
Ceil(a, b) == IF a % b = 0 THEN a \div b ELSE (a \div b) + 1

\* the chunk coordinates in the product of the ranges [start_i // C_i, ceil(stop_i / C_i))
ExpectedChunks(call) ==
    {k \in [1..Len(call.selection) -> 0..MaxOf(call.shape)] :
        \A i \in 1..Len(call.selection) :
            /\ call.selection[i][1] \div call.chunk_shape[i] <= k[i]
            /\ k[i] < Ceil(call.selection[i][2], call.chunk_shape[i])}

\* overlap_i = [max(start_i, k_i C_i), min(stop_i, k_i C_i + C_i))
Overlap(call, k, i) ==
    LET lo == k[i] * call.chunk_shape[i]
        hi == lo + call.chunk_shape[i]
    IN <<IF call.selection[i][1] > lo THEN call.selection[i][1] ELSE lo,
         IF call.selection[i][2] < hi THEN call.selection[i][2] ELSE hi>>

\* C8: the indexer yields exactly one tuple for each chunk coordinate in the product
\* of the per-axis ranges [start_i // C_i, ceil(stop_i / C_i)), with
\* chunk_selection_i = overlap - k_i C_i and out_selection_i = overlap - start_i;
\* shape (10,), chunk (4,), selection 2:9 gives chunks 0, 1, 2 with chunk
\* selections 2:4, 0:4, 0:1 and out selections 0:2, 2:6, 6:7.
C8_Indexer ==
    (op.kind = "BasicIndexer" /\ out.kind = "projections") =>
        /\ Len(out.value) = Cardinality(ExpectedChunks(op))
        /\ \A k \in ExpectedChunks(op) :
              Cardinality({j \in 1..Len(out.value) : out.value[j].chunk_coords = k}) = 1
        /\ \A j \in 1..Len(out.value) :
              LET k == out.value[j].chunk_coords
              IN /\ k \in ExpectedChunks(op)
                 /\ \A i \in 1..Len(op.selection) :
                       /\ out.value[j].chunk_selection[i]
                            = <<Overlap(op, k, i)[1] - k[i] * op.chunk_shape[i],
                                Overlap(op, k, i)[2] - k[i] * op.chunk_shape[i]>>
                       /\ out.value[j].out_selection[i]
                            = <<Overlap(op, k, i)[1] - op.selection[i][1],
                                Overlap(op, k, i)[2] - op.selection[i][1]>>
        /\ op = IndexerExample =>
              {out.value[j] : j \in 1..Len(out.value)}
                  = {[chunk_coords |-> <<0>>, chunk_selection |-> << <<2, 4>> >>,
                      out_selection |-> << <<0, 2>> >>],
                     [chunk_coords |-> <<1>>, chunk_selection |-> << <<0, 4>> >>,
                      out_selection |-> << <<2, 6>> >>],
                     [chunk_coords |-> <<2>>, chunk_selection |-> << <<0, 1>> >>,
                      out_selection |-> << <<6, 7>> >>]}

\* the indexer has been applied to shape (10,), chunk (4,), selection 2:9
C8_Witness ==
    /\ op = IndexerExample
    /\ out.kind = "projections"
    /\ Len(out.value) = 3
    /\ out.shape = <<7>>

\* C9: for a grid with every axis of length 2 and rank 2, 3 or 4, morton_order_iter
\* yields every grid coordinate exactly once, and the i-th coordinate has k_j equal
\* to bit j of i, axis 0 the lowest bit; (2,2) gives (0,0), (1,0), (0,1), (1,1).
C9_Morton ==
    (/\ op.kind = "morton_order_iter"
     /\ out.kind = "coords"
     /\ Len(op.chunk_shape) \in 2..4
     /\ \A j \in 1..Len(op.chunk_shape) : op.chunk_shape[j] = 2) =>
        /\ Len(out.value) = 2 ^ Len(op.chunk_shape)
        /\ \A c \in [1..Len(op.chunk_shape) -> 0..1] :
              Cardinality({i \in 1..Len(out.value) : out.value[i] = c}) = 1
        /\ \A i \in 0..(Len(out.value) - 1) : \A j \in 1..Len(op.chunk_shape) :
              out.value[i + 1][j] = (i \div (2 ^ (j - 1))) % 2
        /\ op.chunk_shape = <<2, 2>>
              => out.value = << <<0, 0>>, <<1, 0>>, <<0, 1>>, <<1, 1>> >>

\* the Morton order of the grid (2,2,2,2) has been listed
C9_Witness ==
    /\ op.kind = "morton_order_iter"
    /\ op.chunk_shape = <<2, 2, 2, 2>>
    /\ out.kind = "coords"
    /\ Len(out.value) = 16
    /\ out.value[7] = <<0, 1, 1, 0>>

\* the decimal digits of a coordinate below 100
Decimal(k) ==
    IF k < 10 THEN <<DigitChars[k + 1]>>
    ELSE <<DigitChars[(k \div 10) + 1], DigitChars[(k % 10) + 1]>>

\* "c" + sep + k0 + sep + k1 ... ("c" for rank 0), or k0 + sep + k1 ... ("0" for rank 0)
RECURSIVE SepCoords(_, _)
SepCoords(sep, coords) ==
    IF coords = <<>> THEN <<>>
    ELSE sep \o Decimal(Head(coords)) \o SepCoords(sep, Tail(coords))

ExpectedKey(name, sep, coords) ==
    IF name = "default" THEN <<"c">> \o SepCoords(sep, coords)
    ELSE IF coords = <<>> THEN <<"0">>
    ELSE Decimal(Head(coords)) \o SepCoords(sep, Tail(coords))

\* C10: encode_chunk_key gives "c"+sep+k0+sep+k1+... under the default encoding
\* ("c" for rank 0) and k0+sep+k1+... under v2 ("0" for rank 0); the store key of
\* a chunk is path + "/" + that string; distinct coordinates give distinct keys.
C10_ChunkKeys ==
    (op.kind = "encode_chunk_key" /\ out.kind = "key") =>
        /\ out.encoded = ExpectedKey(op.chunk_key_encoding[1], op.chunk_key_encoding[2],
                                     op.chunk_coords)
        /\ out.value = array.path \o <<"/">> \o out.encoded
        /\ \A d \in [1..Len(op.chunk_coords) -> 0..MaxCoord] :
              d # op.chunk_coords => ChunkKey(array, d) # out.value

\* the key of chunk (0, 11) under the default encoding has been built
C10_Witness ==
    /\ op.kind = "encode_chunk_key"
    /\ op.chunk_key_encoding = <<"default", <<"/">> >>
    /\ op.chunk_coords = <<0, 11>>
    /\ out.kind = "key"
    /\ out.value = <<"a", "/", "c", "/", "0", "/", "1", "1">>

\* C23: decode_chunk_key(encode_chunk_key(k)) == k for the default and the v2
\* encoding, both separators, and every chunk coordinate tuple k of rank 0 or more.
C23_KeyDecodeInvertsEncode ==
    (op.kind = "encode_chunk_key" /\ out.kind = "decoded") =>
        /\ out.value.kind = "coords"
        /\ out.value.value = op.chunk_coords

\* every chunk key in the store of an array is the key of a chunk of its grid
StoreKeysAreChunkKeys ==
    array.kind = "array" =>
        ChunkKeysOf(store)
            \subseteq {array.path \o <<"/">>
                          \o ExpectedKey(array.metadata.chunk_key_encoding.name,
                                         array.metadata.chunk_key_encoding.configuration.separator,
                                         c) : c \in AllChunkCoords(array)}

----------------------------------------------------------------------------
(* Properties of the shard index *)

\* the sub-chunks of a shard that are not empty
LiveSlots(shard) == {s \in 1..Len(shard.index) : shard.index[s] # SentinelEntry}

\* the end of the byte range of an entry
EntryEnd(entry) == EntryOffset(entry) + EntryLength(entry)

\* C11: in every shard of the store, the byte ranges [offset, offset + length) of
\* any two non-sentinel index entries are disjoint and lie inside the payload
\* region before the index.
C11_ShardIndexNonOverlap ==
    (array.kind = "array" /\ IsShardingOnly(array)) =>
        \A c \in AllChunkCoords(array) :
            LET shard == ShardOf(store, array, c)
            IN \A s \in LiveSlots(shard) :
                  /\ EntryLength(shard.index[s]) > 0
                  /\ EntryEnd(shard.index[s]) <= Len(shard.payload)
                  /\ \A t \in LiveSlots(shard) \ {s} :
                        \/ EntryEnd(shard.index[s]) <= EntryOffset(shard.index[t])
                        \/ EntryEnd(shard.index[t]) <= EntryOffset(shard.index[s])

\* a partial write has rewritten a sub-chunk of a shard that holds another live
\* sub-chunk: the payload holds the bytes of both and the bytes the rewrite left behind
C11_Witness ==
    /\ op.kind = "set"
    /\ op.error = "none"
    /\ IsShardingOnly(array)
    /\ \E c \in AllChunkCoords(array) :
          LET shard == ShardOf(store, array, c)
          IN /\ Cardinality(LiveSlots(shard)) >= 2
             /\ op.selection # ChunkBlock(c, array.metadata.chunk_grid.configuration.chunk_shape)
             /\ \A s \in LiveSlots(shard) : EntryOffset(shard.index[s]) > 0
             /\ \E s \in LiveSlots(shard) : EntryEnd(shard.index[s]) = Len(shard.payload)

----------------------------------------------------------------------------
(* The specification SpecTasks: get_async as the tasks that asyncio.gather runs *)

Range(seq) == {seq[i] : i \in 1..Len(seq)}

TaskConfigs ==
    { Config(<<3>>, <<1>>, Scalar(1), <<"default", <<"/">> >>, <<>>, None),
      Config(<<3>>, <<2>>, None, <<"v2", <<".">> >>, <<EndianCodec("big")>>, Order("F")) }

CreateTasked == Create(TaskConfigs)

\* no call is running and no task of a failed call is left on the event loop
Quiet == IF op.kind \in {"get_running", "get_failed"} THEN op.pending = {} ELSE TRUE

\* a[selection] = value, issued while the event loop is idle
SetQuiet == Quiet /\ Set

\* get_async up to the gather: the output is allocated, one task per chunk is created
GetStart ==
    /\ array.kind = "array"
    /\ Quiet
    /\ \E selection \in Selections(array.metadata.shape) :
          /\ out' = Full(IndexerShape(selection), array.metadata.data_type, 0)
          /\ op' = [kind      |-> "get_running",
                    selection |-> selection,
                    pending   |-> Range(BasicIndexer(selection, array.metadata.shape,
                                    array.metadata.chunk_grid.configuration.chunk_shape)),
                    done      |-> <<>>,
                    error     |-> None]
    /\ UNCHANGED <<array, store>>

\* a task of the gather runs _fetch_chunk to its end; gather cancels no task, so the
\* tasks of a call that has failed are still on the event loop and run as well
FetchDone ==
    /\ op.kind \in {"get_running", "get_failed"}
    /\ \E p \in op.pending :
          /\ out' = fetch_chunk(store, array, p, out)
          /\ op' = [op EXCEPT !.pending = op.pending \ {p},
                              !.done = Append(op.done, p.chunk_coords)]
    /\ UNCHANGED <<array, store>>

\* the store raises in a task: gather hands the first exception to get_async at once,
\* which fails with it; an exception of a later task is dropped
FetchRaise ==
    /\ op.kind \in {"get_running", "get_failed"}
    /\ \E p \in op.pending :
          op' = [op EXCEPT !.pending = op.pending \ {p},
                           !.kind = "get_failed",
                           !.error = IF op.kind = "get_running"
                                     THEN [kind |-> "StoreIOError",
                                           chunk_coords |-> p.chunk_coords]
                                     ELSE op.error]
    /\ UNCHANGED <<array, store, out>>

\* every task has completed: get_async returns out, or out[()]
GetReturn ==
    /\ op.kind = "get_running"
    /\ op.pending = {}
    /\ out' = IF out.shape # <<>>
              THEN [kind |-> "ndarray", shape |-> out.shape, dt |-> out.dt,
                    flat |-> out.flat, order |-> array.runtime_configuration.order]
              ELSE [kind |-> "scalar", value |-> out.flat[1]]
    /\ op' = [kind |-> "get", selection |-> op.selection, done |-> op.done]
    /\ UNCHANGED <<array, store>>

NextTasks == CreateTasked \/ SetQuiet \/ GetStart \/ FetchDone \/ FetchRaise \/ GetReturn

SpecTasks == Init /\ [][NextTasks]_vars

\* whether the key of a chunk holds the same in two stores
SameAt(st1, st2, key) ==
    /\ (key \in DOMAIN st1) = (key \in DOMAIN st2)
    /\ key \in DOMAIN st1 => st1[key] = st2[key]

\* C12: once a chunk task of a get has failed, the call has failed with that first
\* error and no other task of the call completes a store read or writes into the
\* output; once a chunk of a set has failed, the call has failed with that error and
\* the chunks after it in the loop are not written.
C12_ErrorPolicy ==
    [][/\ (op.kind = "get_failed" /\ op'.kind = "get_failed")
            => /\ op'.error = op.error
               /\ op'.done = op.done
               /\ out' = out
       /\ (op'.kind = "set" /\ vars' # vars /\ op'.error # "none")
            => LET chunk_shape == array.metadata.chunk_grid.configuration.chunk_shape
                   indexer == BasicIndexer(op'.selection, array.metadata.shape, chunk_shape)
               IN \E i \in 1..Len(indexer) :
                     /\ set_chunk(store', array, IndexerShape(op'.selection), op'.value,
                                  indexer[i]).error = op'.error
                     /\ \A j \in i..Len(indexer) :
                           SameAt(store, store', ChunkKey(array, indexer[j].chunk_coords))]_vars

\* the chunk coordinates of the tasks of a get, in the order of the indexer
IndexerCoords(arr, selection) ==
    LET indexer == BasicIndexer(selection, arr.metadata.shape,
                                arr.metadata.chunk_grid.configuration.chunk_shape)
    IN [j \in 1..Len(indexer) |-> indexer[j].chunk_coords]

\* C20: the out_selections of the chunk tasks of a get are pairwise disjoint and
\* cover every element of the output exactly once, get returns only after all the
\* tasks have completed, and the buffer it returns is the same for every order in
\* which they complete.
C20_GetInterleavingIndependence ==
    [][/\ op'.kind = "get_running"
            => \A ix \in Idx(out'.shape) :
                  Cardinality({p \in Range(BasicIndexer(op'.selection, array.metadata.shape,
                                     array.metadata.chunk_grid.configuration.chunk_shape)) :
                                  InSel(ix, p.out_selection)}) = 1
       /\ (op.kind = "get_running" /\ op'.kind = "get")
            => /\ Range(op'.done) = Range(IndexerCoords(array, op.selection))
               /\ Len(op'.done) = Len(IndexerCoords(array, op.selection))
               /\ out' = get_async(store, array, op.selection)]_vars

\* a get over three chunks, one of them missing, has returned after its tasks
\* completed in the reverse of the indexer's order
C20_Witness ==
    /\ op.kind = "get"
    /\ Len(op.done) = 3
    /\ op.done = Reverse(IndexerCoords(array, op.selection))
    /\ \E c \in Range(op.done) : ChunkKey(array, c) \in DOMAIN store
    /\ \E c \in Range(op.done) : ChunkKey(array, c) \notin DOMAIN store
    /\ out = get_async(store, array, op.selection)

----------------------------------------------------------------------------
(* The specification SpecMismatch: values whose shape is not the selection's *)

MismatchConfigs ==
    { Config(<<3>>, <<2>>, Scalar(1), <<"default", <<"/">> >>, <<GzipCodec>>, None),
      Config(<<>>, <<>>, None, <<"default", <<"/">> >>, <<>>, None) }

CreateMismatch == Create(MismatchConfigs)

\* shapes of the rank of the selection, of one axis more and of no axis, other than
\* the shape of the selection
WrongShapes(selection) ==
    (Shapes(Len(selection), MaxExt) \cup Shapes(Len(selection) + 1, 1) \cup {<<>>})
        \ {SelShape(selection)}

\* ndarrays that do not have the shape of the selection
WrongValuesFor(selection) ==
    {Full(shape, "uint16", v) : shape \in WrongShapes(selection), v \in Values}

\* a[selection] = value with a value of another shape
SetMismatched ==
    /\ array.kind = "array"
    /\ \E selection \in Selections(array.metadata.shape) :
          \E value \in WrongValuesFor(selection) :
             SetResult(selection, value, set_async(store, array, selection, value))
    /\ out' = None
    /\ UNCHANGED array

NextMismatch == CreateMismatch \/ Set \/ SetMismatched \/ Get

SpecMismatch == Init /\ [][NextMismatch]_vars

\* C13: a set with a non-scalar value whose shape differs from the selection's shape
\* fails with an error and leaves every key of the store unchanged.
C13_ShapeMismatchRejected ==
    [][(/\ op'.kind = "set"
        /\ op' # op
        /\ ~isscalar(op'.value)
        /\ op'.value.shape # SelShape(op'.selection))
          => /\ op'.error # "none"
             /\ store' = store]_vars

\* a value of two elements has been refused for a selection of three that spans both
\* chunks, one of which is in the store
C13_Witness ==
    /\ op.kind = "set"
    /\ op.selection = <<<<0, 3>>>>
    /\ ~isscalar(op.value)
    /\ op.value.shape = <<2>>
    /\ op.error = "AssertionError"
    /\ ChunkKeysOf(store) # {}

----------------------------------------------------------------------------
(* The specification SpecMetadata: create and open, and the zarr.json they *)
(* write and read                                                          *)

\* a codec list is well formed when sharding_indexed occurs at most once in it and,
\* if it does, is the only codec
ShardingCount(codecs) ==
    Cardinality({i \in 1..Len(codecs) : codecs[i].name = "sharding_indexed"})

\* a codec of a name that _structure_codec_metadata does not know
UnknownCodec == [name |-> "zstd", configuration |-> [level |-> 1]]

MetadataConfigs ==
    { Config(<<2>>, <<2>>, None, <<"default", <<"/">> >>, <<GzipCodec>>, None),
      Config(<<2>>, <<2>>, Scalar(1), <<"v2", <<".">> >>,
             <<ShardingCodec(<<1>>, <<EndianCodec("big")>>)>>, Order("F")),
      Config(<<2>>, <<2>>, None, <<"default", <<"/">> >>,
             <<ShardingCodec(<<1>>, <<>>), GzipCodec>>, None),
      Config(<<2>>, <<2>>, None, <<"default", <<".">> >>,
             <<TransposeCodec("F"), ShardingCodec(<<1>>, <<>>)>>, None),
      Config(<<2>>, <<2>>, Scalar(1), <<"v2", <<"/">> >>,
             <<ShardingCodec(<<2>>, <<>>), ShardingCodec(<<1>>, <<>>)>>, None) }

CreateAny == Create(MetadataConfigs)

\* the metadata documents that Array.create writes for MetadataConfigs
CreatedDocuments ==
    {create_async(<<"a">>, c.shape, c.chunk_shape, c.fill_value, c.chunk_key_encoding,
                  c.codecs, c.runtime_configuration).metadata : c \in MetadataConfigs}

\* documents with a name outside the known ones: a codec of the outer list, a codec
\* inside the list of a sharding codec, the chunk key encoding
UnknownDocuments ==
    UNION {{[d EXCEPT !.codecs = <<UnknownCodec>>],
            [d EXCEPT !.codecs = <<GzipCodec, UnknownCodec>>],
            [d EXCEPT !.codecs = <<ShardingCodec(<<1>>, <<EndianCodec("big"), UnknownCodec>>)>>],
            [d EXCEPT !.chunk_key_encoding.name = "v3"]} : d \in CreatedDocuments}

Documents == CreatedDocuments \cup UnknownDocuments

\* another writer puts a zarr.json at the path
PutDocument ==
    /\ \E d \in Documents :
          store' = StoreSet(store, MetadataKey(<<"a">>), [kind |-> "json", document |-> d])
    /\ op' = [kind |-> "put"]
    /\ out' = None
    /\ UNCHANGED array

\* make_cattr: _structure_chunk_key_encoding_metadata
structure_chunk_key_encoding_metadata(d) ==
    IF d.name = "default" THEN [error |-> "none", value |-> d]
    ELSE IF d.name = "v2" THEN [error |-> "none", value |-> d]
    ELSE [error |-> "KeyError"]

\* a _structure_codec_metadata that passes a codec of any name
structure_codec_metadata_lenient(d) == [error |-> "none", value |-> d]

\* make_cattr: _structure_codec_metadata, which also structures the codecs inside a
\* sharding codec
RECURSIVE structure_codec_metadata(_)
structure_codec_metadata(d) ==
    IF d.name \in {"blosc", "endian", "transpose", "gzip"}
    THEN [error |-> "none", value |-> d]
    ELSE IF d.name = "sharding_indexed"
         THEN IF \A i \in 1..Len(d.configuration.codecs) :
                    structure_codec_metadata(d.configuration.codecs[i]).error = "none"
              THEN [error |-> "none", value |-> d]
              ELSE [error |-> "KeyError"]
    ELSE [error |-> "KeyError"]

\* Array.from_json: make_cattr().structure(zarr_json, ArrayMetadata)
from_json(path, zarr_json, runtime_configuration) ==
    IF structure_chunk_key_encoding_metadata(zarr_json.chunk_key_encoding).error # "none"
    THEN [error |-> "KeyError", array |-> None]
    ELSE IF \E i \in 1..Len(zarr_json.codecs) :
                structure_codec_metadata(zarr_json.codecs[i]).error # "none"
         THEN [error |-> "KeyError", array |-> None]
    ELSE [error |-> "none",
          array |-> [kind     |-> "array",
                     metadata |-> zarr_json,
                     path     |-> path,
                     runtime_configuration |-> runtime_configuration]]

\* Array.open_async
open_async(st, path, runtime_configuration) ==
    LET zarr_json_bytes == StoreGet(st, MetadataKey(path))
    IN IF zarr_json_bytes.kind = "none"
       THEN [error |-> "AssertionError", array |-> None]
       ELSE from_json(path, zarr_json_bytes.document,
                      IF runtime_configuration.kind = "none" THEN ArrayRuntimeConfiguration
                      ELSE [order |-> runtime_configuration.order])

\* Array.open(store, path)
Open ==
    /\ LET r == open_async(store, <<"a">>, None)
       IN /\ array' = r.array
          /\ op' = [kind |-> "open", error |-> r.error]
    /\ out' = None
    /\ UNCHANGED store

NextMetadata == CreateAny \/ PutDocument \/ Open

SpecMetadata == Init /\ [][NextMetadata]_vars

\* C14: every array handle that create or open returns has at most one codec named
\* sharding_indexed and, if it has one, no other codec.
C14_ShardingExclusivity ==
    array.kind = "array" =>
        /\ ShardingCount(array.metadata.codecs) <= 1
        /\ ShardingCount(array.metadata.codecs) = 1 => Len(array.metadata.codecs) = 1

\* the names the specification lists for codecs and chunk key encodings
KnownCodecNames == {"transpose", "endian", "gzip", "blosc", "sharding_indexed"}

KnownEncodingNames == {"default", "v2"}

\* whether a codec list has a codec of an unknown name, at any depth
RECURSIVE HasUnknownCodec(_)
HasUnknownCodec(codecs) ==
    \E i \in 1..Len(codecs) :
        \/ codecs[i].name \notin KnownCodecNames
        \/ /\ codecs[i].name = "sharding_indexed"
           /\ HasUnknownCodec(codecs[i].configuration.codecs)

\* C15: open of a path whose zarr.json has a codec, at the outer level or inside a
\* sharding codec, or a chunk_key_encoding of a name outside the known ones raises
\* an error and returns no array handle; so does open of a path with no zarr.json.
C15_UnknownTagsFailOpen ==
    [][op'.kind = "open"
          => LET key == MetadataKey(<<"a">>)
             IN (\/ key \notin DOMAIN store
                 \/ /\ key \in DOMAIN store
                    /\ \/ HasUnknownCodec(store[key].document.codecs)
                       \/ store[key].document.chunk_key_encoding.name
                              \notin KnownEncodingNames)
                    => /\ op'.error # "none"
                       /\ array'.kind = "none"]_vars

\* an open has failed on a zarr.json whose chunk key encoding and outer codec are
\* known and whose sharding codec holds a codec of an unknown name
C15_Witness ==
    /\ op.kind = "open"
    /\ op.error = "KeyError"
    /\ array.kind = "none"
    /\ MetadataKey(<<"a">>) \in DOMAIN store
    /\ LET d == store[MetadataKey(<<"a">>)].document
       IN /\ d.chunk_key_encoding.name \in KnownEncodingNames
          /\ Len(d.codecs) = 1
          /\ d.codecs[1].name = "sharding_indexed"
          /\ \E i \in 1..Len(d.codecs[1].configuration.codecs) :
                d.codecs[1].configuration.codecs[i].name \notin KnownCodecNames

----------------------------------------------------------------------------
(* The merge of a partial chunk *)

\* the chunk at chunk_coords as a reader decodes it: fill_value when its key is absent
ChunkContents(st, arr, chunk_coords) ==
    LET tmp == decode_chunk(st, arr, FileValueHandle(ChunkKey(arr, chunk_coords)))
    IN IF tmp.kind = "none"
       THEN Full(arr.metadata.chunk_grid.configuration.chunk_shape, arr.metadata.data_type,
                 arr.metadata.fill_value)
       ELSE tmp

Projections(arr, selection) ==
    Range(BasicIndexer(selection, arr.metadata.shape,
                       arr.metadata.chunk_grid.configuration.chunk_shape))

IsPartial(arr, p) ==
    ~is_total_slice(p.chunk_selection, arr.metadata.chunk_grid.configuration.chunk_shape)

\* C18: a partial-chunk write on a non-sharding array leaves every element of the
\* chunk outside the chunk selection as it was before the write (fill_value when the
\* key was absent) and sets the elements inside it to value[out_selection].
C18_ReadModifyWrite ==
    [][(/\ array.kind = "array"
        /\ ~IsShardingOnly(array)
        /\ op'.kind = "set"
        /\ ~isscalar(op'.value)
        /\ vars' # vars)
          => \A p \in Projections(array, op'.selection) :
                IsPartial(array, p)
                    => ChunkContents(store', array, p.chunk_coords)
                          = SetSel(ChunkContents(store, array, p.chunk_coords),
                                   p.chunk_selection, GetSel(op'.value, p.out_selection))]_vars

----------------------------------------------------------------------------
(* The frame of get and set *)

\* the coordinates of the chunks that have an element in the selection
ChunksCovered(arr, selection) ==
    {c \in AllChunkCoords(arr) :
        Intersects(selection, ChunkBlock(c, arr.metadata.chunk_grid.configuration.chunk_shape))}

\* C19: a set changes the presence and the bytes of no key but the keys of the chunks
\* that intersect its selection, and a get changes no key: the metadata document and
\* the key of every chunk the selection does not intersect are after the call what
\* they were before it.
C19_Frame ==
    [][/\ op'.kind = "get" => store' = store
       /\ op'.kind = "set"
            => /\ SameAt(store, store', MetadataKey(array.path))
               /\ \A c \in AllChunkCoords(array) \ ChunksCovered(array, op'.selection) :
                     SameAt(store, store', ChunkKey(array, c))
               /\ \A k \in (DOMAIN store) \cup (DOMAIN store') :
                     SameAt(store, store', k)
                        \/ \E c \in ChunksCovered(array, op'.selection) :
                              k = ChunkKey(array, c)]_vars

\* a set has written one chunk and the key of a chunk that it does not intersect
\* holds data
C19_Witness ==
    /\ op.kind = "set"
    /\ op.error = "none"
    /\ \E c \in ChunksCovered(array, op.selection) : ChunkKey(array, c) \in DOMAIN store
    /\ \E c \in AllChunkCoords(array) \ ChunksCovered(array, op.selection) :
          ChunkKey(array, c) \in DOMAIN store

----------------------------------------------------------------------------
(* The specification SpecWriters: two set_async calls as tasks of one event *)
(* loop, each store operation a step                                        *)

WriterConfigs ==
    { Config(<<2>>, <<2>>, None, <<"default", <<"/">> >>, <<>>, None),
      Config(<<2>>, <<2>>, Scalar(1), <<"v2", <<".">> >>, <<EndianCodec("big")>>, None),
      Config(<<2>>, <<2>>, Scalar(1), <<"v2", <<".">> >>,
             <<ShardingCodec(<<1>>, <<EndianCodec("big")>>)>>, None) }

CreateWriters == Create(WriterConfigs)

\* a[selection] = value before the two tasks are started
SetFirst == op.kind \in {"create", "set"} /\ Set

\* the record of one store operation of a task
StoreOp(name, key) == [op |-> name, key |-> key]

\* a set_async call that has been made a task and has not run yet; ops is the list of
\* the store operations of the round of the loop it is in, or has just ended
Task(arr, selection, value) ==
    [selection |-> selection,
     value     |-> value,
     todo      |-> BasicIndexer(selection, arr.metadata.shape,
                                arr.metadata.chunk_grid.configuration.chunk_shape),
     pc        |-> "new",
     tmp       |-> EmptyStore,
     ops       |-> <<>>,
     error     |-> "none"]

\* two calls set_async(selection, value) are made tasks, the first one first
SetsStart ==
    /\ array.kind = "array"
    /\ op.kind \in {"create", "set"}
    /\ \E s1 \in Selections(array.metadata.shape), s2 \in Selections(array.metadata.shape) :
          \E v1 \in ValuesFor(s1), v2 \in ValuesFor(s2) :
             op' = [kind   |-> "sets",
                    before |-> ReadAll(store, array),
                    tasks  |-> <<Task(array, s1, v1), Task(array, s2, v2)>>]
    /\ out' = None
    /\ UNCHANGED <<array, store>>

\* a task runs without suspension up to its first store operation, and tasks are
\* started in the order in which they were created
MayRun(i) ==
    /\ op.kind = "sets"
    /\ op.tasks[i].pc \in {"new", "start", "read"}
    /\ (i = 2 /\ op.tasks[2].pc = "new") => op.tasks[1].pc # "new"

\* whether the round of the loop for projection p reads the key of the chunk: not for
\* a total slice, and not when value[out_selection] raises before encode_partial
NeedsRead(arr, value, p) ==
    /\ ~is_total_slice(p.chunk_selection, arr.metadata.chunk_grid.configuration.chunk_shape)
    /\ ~(IsShardingOnly(arr) /\ isscalar(value))

\* what the store holds at one key, as a store
Snapshot(st, key) == IF key \in DOMAIN st THEN StoreSet(EmptyStore, key, st[key]) ELSE EmptyStore

\* the read of the chunk by _decode_chunk or by encode_partial: the task is suspended
\* with what the store returned
TaskRead(i) ==
    /\ MayRun(i)
    /\ LET t == op.tasks[i]
           p == Head(t.todo)
       IN /\ t.pc \in {"new", "start"}
          /\ NeedsRead(array, t.value, p)
          /\ op' = [op EXCEPT !.tasks[i].pc = "read",
                              !.tasks[i].ops = <<StoreOp("get", ChunkKey(array, p.chunk_coords))>>,
                              !.tasks[i].tmp = Snapshot(store, ChunkKey(array, p.chunk_coords))]
    /\ UNCHANGED <<array, store, out>>

\* the end of a round: r is what the round computed from what it had read; its chunk
\* is set or deleted in the store as it is now, or the exception it raised ends the task
TaskWritten(i, key, r) ==
    /\ LET t   == op.tasks[i]
           p   == Head(t.todo)
           st  == IF key \in DOMAIN r.store THEN StoreSet(store, key, r.store[key])
                  ELSE StoreDelete(store, key)
           ops == IF t.pc = "read" THEN t.ops ELSE <<>>
           w   == StoreOp(IF key \in DOMAIN r.store THEN "set" ELSE "delete", key)
       IN /\ t.pc = "read" \/ ~NeedsRead(array, t.value, p)
          /\ IF r.error # "none"
             THEN /\ op' = [op EXCEPT !.tasks[i].pc = "failed", !.tasks[i].error = r.error,
                                      !.tasks[i].ops = ops,
                                      !.tasks[i].tmp = EmptyStore]
                  /\ UNCHANGED store
             ELSE /\ PayloadBounded(st, array)
                  /\ store' = st
                  /\ op' = [op EXCEPT !.tasks[i].todo = Tail(t.todo),
                                      !.tasks[i].ops = ops \o <<w>>,
                                      !.tasks[i].tmp = EmptyStore,
                                      !.tasks[i].pc = IF Tail(t.todo) = <<>> THEN "done"
                                                      ELSE "start"]
    /\ UNCHANGED <<array, out>>

\* the rest of the round: the chunk is merged with what was read, encoded and written
\* or deleted, or value[out_selection] raises
TaskWrite(i) ==
    /\ MayRun(i)
    /\ LET t   == op.tasks[i]
           p   == Head(t.todo)
           key == ChunkKey(array, p.chunk_coords)
       IN TaskWritten(i, key,
                      set_chunk(IF t.pc = "read" THEN t.tmp ELSE Snapshot(store, key), array,
                                IndexerShape(t.selection), t.value, p))

TaskStep == \E i \in {1, 2} : TaskRead(i) \/ TaskWrite(i)

NextWriters == CreateWriters \/ SetFirst \/ SetsStart \/ TaskStep

SpecWriters == Init /\ [][NextWriters]_vars

\* C16: after two concurrent set calls to one chunk have completed, each element of
\* the chunk holds the value of the last-issued set that covered it, and elements
\* neither covered hold what they held before.
C16_ConcurrentWriters ==
    (/\ op.kind = "sets"
     /\ op.tasks[1].pc = "done"
     /\ op.tasks[2].pc = "done")
        => ReadAll(store, array)
              = Assign(Assign(op.before, op.tasks[1].selection, op.tasks[1].value),
                       op.tasks[2].selection, op.tasks[2].value)

\* a step that ends a round of the loop of task i, by its write or by an exception
EndsRound(i) ==
    /\ op.kind = "sets"
    /\ op'.kind = "sets"
    /\ op.tasks[i].pc \in {"new", "start", "read"}
    /\ op'.tasks[i].pc \in {"start", "done", "failed"}

\* the store operations a round of the loop is to make on a chunk, by the way the
\* chunk is covered
DispatchedAsStated(i) ==
    LET t           == op.tasks[i]
        p           == Head(t.todo)
        key         == ChunkKey(array, p.chunk_coords)
        chunk_shape == array.metadata.chunk_grid.configuration.chunk_shape
        ops         == op'.tasks[i].ops
        codec       == array.metadata.codecs[1]
    IN IF is_total_slice(p.chunk_selection, chunk_shape)
       THEN /\ Len(ops) = 1
            /\ ops[1].op \in {"set", "delete"}
            /\ ops[1].key = key
       ELSE IF IsShardingOnly(array)
       THEN /\ t.pc = "read"
            /\ op'.tasks[i].pc # "failed"
            /\ ~isscalar(t.value)
            /\ Snapshot(store', key)
                  = FileSet(t.tmp, key,
                            encode_partial(t.tmp, codec, FileValueHandle(key),
                                           GetSel(t.value, p.out_selection),
                                           p.chunk_selection, core_metadata(array)))
       ELSE /\ Len(ops) = 2
            /\ ops[1] = StoreOp("get", key)
            /\ ops[2].op \in {"set", "delete"}
            /\ ops[2].key = key

\* C17: in set, a chunk covered by the total slice is written by exactly one store set
\* or delete and is not read; a partially covered chunk of a non-sharding array gets
\* exactly one read of its key and then exactly one set or delete of that key; a
\* partially covered chunk of an array whose only codec is sharding is written with
\* what the sharding partial encode returns.
C17_WriteDispatch == [][\A i \in {1, 2} : EndsRound(i) => DispatchedAsStated(i)]_vars

----------------------------------------------------------------------------
(* The codec pipeline of one chunk, stage by stage.  _encode_chunk and     *)
(* _decode_chunk await one codec after the other; op keeps the codecs      *)
(* still to run and the stages that ran, out the handle between stages.    *)

\* pipelines of zero to three codecs whose stages do not commute
CodecConfigs ==
    { Config(<<2>>, <<2>>, None, <<"default", <<"/">> >>, <<>>, None),
      Config(<<2>>, <<2>>, None, <<"default", <<"/">> >>, <<EndianCodec("big")>>, None),
      Config(<<2>>, <<2>>, Scalar(1), <<"default", <<"/">> >>,
             <<GzipCodec, BloscCodec>>, None),
      Config(<<2>>, <<2>>, None, <<"v2", <<".">> >>,
             <<EndianCodec("big"), GzipCodec>>, None),
      Config(<<2, 2>>, <<2, 1>>, Scalar(1), <<"default", <<"/">> >>,
             <<TransposeCodec("F"), GzipCodec>>, Order("F")),
      Config(<<1, 2>>, <<1, 2>>, None, <<"default", <<"/">> >>,
             <<TransposeCodec("F"), EndianCodec("big"), BloscCodec>>, None) }

CreateCodecs == Create(CodecConfigs)

Stage(codec, input, output) == [codec |-> codec, input |-> input, output |-> output]

\* _encode_chunk up to its loop: the chunk wrapped in an array handle
EncodeStart ==
    /\ array.kind = "array"
    /\ op.kind \in {"create", "encode", "decode"}
    /\ op.kind # "create" => op.todo = <<>>
    /\ \E chunk_array \in ArraysOf(array.metadata.chunk_grid.configuration.chunk_shape) :
          /\ op' = [kind |-> "encode", input |-> ArrayValueHandle(chunk_array),
                    todo |-> array.metadata.codecs, stages |-> <<>>]
          /\ out' = ArrayValueHandle(chunk_array)
    /\ UNCHANGED <<array, store>>

\* one turn of the loop of _encode_chunk
EncodeStage ==
    /\ op.kind = "encode"
    /\ op.todo # <<>>
    /\ LET codec == Head(op.todo)
           next  == CodecEncode(store, codec, out, core_metadata(array))
       IN /\ out' = next
          /\ op' = [kind |-> "encode", input |-> op.input, todo |-> Tail(op.todo),
                    stages |-> Append(op.stages, Stage(codec, out, next))]
    /\ UNCHANGED <<array, store>>

\* the handles _decode_chunk is given: what an encode returned, the handle of a
\* key the store does not hold, the None handle
DecodeInputs ==
    {FileValueHandle(ChunkKey(array, [i \in 1..Len(array.metadata.shape) |-> 0])),
     NoneValueHandle}
        \cup (IF op.kind = "encode" THEN {out} ELSE {})

\* _decode_chunk up to its loop: the None handle returns at once
DecodeStart ==
    /\ array.kind = "array"
    /\ op.kind \in {"create", "encode", "decode"}
    /\ op.kind # "create" => op.todo = <<>>
    /\ \E value_handle \in DecodeInputs :
          /\ op' = [kind |-> "decode", input |-> value_handle,
                    todo |-> IF value_handle.kind = "none" THEN <<>>
                             ELSE Reverse(array.metadata.codecs),
                    stages |-> <<>>]
          /\ out' = value_handle
    /\ UNCHANGED <<array, store>>

\* one turn of the loop of _decode_chunk
DecodeStage ==
    /\ op.kind = "decode"
    /\ op.todo # <<>>
    /\ LET codec == Head(op.todo)
           next  == CodecDecode(store, codec, out, core_metadata(array))
       IN /\ out' = next
          /\ op' = [kind |-> "decode", input |-> op.input, todo |-> Tail(op.todo),
                    stages |-> Append(op.stages, Stage(codec, out, next))]
    /\ UNCHANGED <<array, store>>

NextCodecs == CreateCodecs \/ EncodeStart \/ EncodeStage \/ DecodeStart \/ DecodeStage

SpecCodecs == Init /\ [][NextCodecs]_vars

\* the stages that ran are the first ones of the list, in its order, each fed the
\* output of the one before and the first fed the input
Chained(stages, codecs, input) ==
    /\ Len(stages) <= Len(codecs)
    /\ \A i \in 1..Len(stages) :
          /\ stages[i].codec = codecs[i]
          /\ stages[i].input = IF i = 1 THEN input ELSE stages[i - 1].output

\* the bytes of gzip inside blosc: the length header, then the magic number
BloscOfGzip(buf) ==
    /\ Len(buf) >= 1 + Len(GzipMagic)
    /\ buf[1] = Len(buf) - 1
    /\ SubSeq(buf, 2, 1 + Len(GzipMagic)) = GzipMagic

EncodeDone == op.kind = "encode" /\ op.todo = <<>>

DecodeDone == op.kind = "decode" /\ op.todo = <<>>

\* C22: for a codec list [c1, ..., cn] encoding a chunk applies c1.encode first and
\* cn.encode last, each stage consuming the output of the stage before, and decoding
\* applies cn.decode first and c1.decode last; the stages of one chunk run one after
\* the other; a None handle given to the decoder runs no decode stage and yields None.
C22_CodecOrder ==
    /\ op.kind = "encode" =>
          /\ Chained(op.stages, array.metadata.codecs, op.input)
          /\ out = IF op.stages = <<>> THEN op.input ELSE Last(op.stages).output
          /\ EncodeDone =>
                /\ Len(op.stages) = Len(array.metadata.codecs)
                /\ out = encode_chunk(store, array, op.input.array)
                /\ array.metadata.codecs = <<GzipCodec, BloscCodec>> =>
                      BloscOfGzip(out.buf)
    /\ op.kind = "decode" =>
          /\ Chained(op.stages, Reverse(array.metadata.codecs), op.input)
          /\ out = IF op.stages = <<>> THEN op.input ELSE Last(op.stages).output
          /\ DecodeDone =>
                /\ op.input.kind = "none" => op.stages = <<>> /\ out = None
                /\ op.input.kind # "none" =>
                      Len(op.stages) = Len(array.metadata.codecs)
                /\ LET chunk_array == toarray(store, out)
                   IN decode_chunk(store, array, op.input)
                         = IF chunk_array.kind = "none" THEN None
                           ELSE EnsureDtypeAndShape(
                                    chunk_array, array.metadata.data_type,
                                    array.metadata.chunk_grid.configuration.chunk_shape,
                                    array.runtime_configuration.order)

\* an encoded chunk of the three-codec pipeline went through blosc, endian and
\* transpose decode, in that order
C22_Witness ==
    /\ DecodeDone
    /\ Len(op.stages) = 3
    /\ op.input.kind = "buffer"
    /\ op.stages[1].codec = BloscCodec
    /\ op.stages[3].codec = TransposeCodec("F")
    /\ toarray(store, out).flat # toarray(store, op.input).flat

----------------------------------------------------------------------------
(* Edge chunks: the chunks that reach beyond the shape of the array *)

EdgeChunks(arr) ==
    {c \in AllChunkCoords(arr) :
        \E i \in 1..Len(c) :
            (c[i] + 1) * arr.metadata.chunk_grid.configuration.chunk_shape[i]
                > arr.metadata.shape[i]}

\* the index tuples of the chunk at chunk_coords that lie outside the array
Padding(arr, chunk_coords) ==
    {ix \in Idx(arr.metadata.chunk_grid.configuration.chunk_shape) :
        \E i \in 1..Len(ix) :
            chunk_coords[i] * arr.metadata.chunk_grid.configuration.chunk_shape[i] + ix[i]
                >= arr.metadata.shape[i]}

PaddedWithFill(st, arr, chunk_coords) ==
    LET chunk_array == decode_chunk(st, arr, FileValueHandle(ChunkKey(arr, chunk_coords)))
    IN /\ chunk_array.kind = "ndarray"
       /\ chunk_array.shape = arr.metadata.chunk_grid.configuration.chunk_shape
       /\ \A ix \in Padding(arr, chunk_coords) :
             At(chunk_array, ix) = arr.metadata.fill_value

\* C21: after any sequence of sets every edge chunk whose key is present decodes to
\* an array of chunk_shape whose elements outside the shape of the array all equal
\* fill_value.
C21_EdgePadding ==
    array.kind = "array" =>
        \A c \in EdgeChunks(array) :
            ChunkKey(array, c) \in DOMAIN store => PaddedWithFill(store, array, c)
====
